---- MODULE Spec2Model ----
(***************************************************************************)
(* Task orchestration of the browser automation bridge: the Task record,   *)
(* the agent side-table, the background execute_task coroutine and the     *)
(* API handlers run_task, get_task_status, stop_task, pause_task,          *)
(* resume_task, the shutdown sweep cleanup_all_tasks, webhook delivery     *)
(* (trigger_webhook) and the credential pool (ProviderKeyPool).            *)
(*                                                                         *)
(* The program is a single asyncio event loop.  A handler without an       *)
(* await is one atomic action.  execute_task is split at its suspension    *)
(* points; `current` names the Run that is inside the synchronous segment  *)
(* between its first status write and `await agent.run()`, during which no *)
(* other coroutine can be scheduled.  asyncio.create_task only schedules   *)
(* the coroutine, so its first step is a later step of the loop.           *)
(*                                                                         *)
(* Optional values (None | value) are sequences of length 0 or 1.          *)
(*                                                                         *)
(* Several specifications share the module.  Spec is the service as the    *)
(* API drives it, with the status poll as one step.  SpecHooks runs        *)
(* execute_task on a stored Task that carries a webhook_url and            *)
(* webhook_events, which no handler ever writes; SpecHooksFair adds that   *)
(* the event loop resumes a Run whose await has ended.  SpecWebhook runs   *)
(* trigger_webhook on every combination of arguments.  SpecPool is the     *)
(* credential pool under concurrently starting Runs, SpecLoad its loading  *)
(* from the environment.  SpecCapture applies the screenshot pipeline to   *)
(* every kind of capture.  SpecMedia is the service with the status poll   *)
(* split at the await of its capture, and with the media routes.           *)
(* SpecSweep is the shutdown sweep over a store of several Tasks.          *)
(***************************************************************************)
EXTENDS Integers, Sequences, FiniteSets, TLC

\* ------------------------------------------------------------------ bounds
MaxTasks == 1
MaxSteps == 2
\* longest configured key list of a provider, and Runs that resolve a credential
MaxKeys == 2
MaxRuns == 3
\* characters in the value of an environment variable
MaxChars == 4
\* runs of the screenshot pipeline on one Task
MaxShots == 2
\* status polls suspended at the same time
MaxPending == 1
\* Tasks in the store when the process shuts down
MaxSwept == 2

\* ------------------------------------------------------- program constants
CREATED  == "created"
RUNNING  == "running"
FINISHED == "finished"
STOPPED  == "stopped"
PAUSED   == "paused"
FAILED   == "failed"
STOPPING == "stopping"

TaskStatus == {CREATED, RUNNING, FINISHED, STOPPED, PAUSED, FAILED, STOPPING}
Terminal   == {FINISHED, FAILED, STOPPED}

DEFAULT_USER_ID == "default"
Users == {DEFAULT_USER_ID, "other"}

\* texts an exception can carry (str(e) is empty for e.g. TimeoutError())
ExcTexts == {"", "boom"}
\* values of AgentHistoryList.final_result(): None or a text
FinalResults == {<<>>, <<"answer">>}
\* where the synchronous set-up of execute_task can raise
SetupStages == {"llm", "browser", "agent"}

None == <<>>
Some(x) == <<x>>

\* event names a Task can subscribe to
WebhookEvents == {"task.completed", "task.failed"}
\* the target of a delivery
WEBHOOK_URL == "http://hook"
\* what one POST can come to: 2xx, another status, httpx.TimeoutException, any
\* other exception
Responses == {"2xx", "non2xx", "timeout", "error"}
\* default of the parameter max_retries of trigger_webhook
max_retries == 3
\* how browser_session.get_cookies() can end inside collect_browser_cookies
CookieOutcomes == {"collected", "closed", "error"}

TaskIds == 1..MaxTasks

VARIABLES
  tasks,     \* task store: sequence of Task records, task id = index
  agents,    \* agent side-table: task id -> agent handle (registered ids only)
  pc,        \* position of each task's execute_task coroutine
  outcome,   \* execute_task local: how agent.run()/set-up ended
  raised,    \* execute_task local: text of the caught exception (None if none)
  browser,   \* execute_task local `browser`: "none" | "open" | "closed"
  current,   \* Run inside a synchronous segment (0 = none)
  now,       \* logical clock behind datetime.now(), per Task: only the order of
             \* one Task's own timestamps is ever observed
  shutdown,  \* the lifespan has run cleanup_all_tasks
  calls,     \* agent methods invoked by the latest step: <<task, method>> pairs
  reply,     \* what the latest step returned to an API caller (NoReply: no handler)
  request,   \* the body each Task was submitted with (kept by the client only)
  hook,      \* execute_task's call of trigger_webhook, per Task
  cleaned,   \* what cleanup_task has asked for so far, per Task
  pools,     \* LLMPoolManager.pools: provider -> [keys, current_index]
  run_key,   \* SpecPool: what get_pooled_api_key returned to each starting Run
  handed,    \* SpecPool: acquisitions in order, <<provider, index, key>>
  environ,   \* os.environ: provider -> its _API_KEYS and _API_KEY variables
  media_dir, \* MEDIA_DIR / task_id: the files written for each Task, in order
  polls,     \* status polls suspended in `await take_screenshot`
  captured   \* what the latest run of the screenshot pipeline logged

vars == <<tasks, agents, pc, outcome, raised, browser, current, now, shutdown, calls, reply,
          request, hook, cleaned, pools, run_key, handed, environ, media_dir, polls,
          captured>>

\* the variables of the credential pool
poolVars == <<pools, run_key, handed>>
\* the variables of the screenshot pipeline
shotVars == <<media_dir, polls, captured>>

NoReply == [op |-> "none", task |-> 0, user |-> DEFAULT_USER_ID, code |-> 0,
            message |-> "", status |-> "", result |-> None, error |-> None,
            media |-> <<>>, live_url |-> ""]

\* ------------------------------------------------------------- task store
task_exists(st, t, u) == t \in DOMAIN st /\ st[t].owner = u

\* get_task: a lookup under the wrong owner behaves like "not found"
get_task(st, t, u) == IF task_exists(st, t, u) THEN Some(st[t]) ELSE None

create_task(st, data) == Append(st, data)

update_task_status(st, t, s, u) ==
  IF task_exists(st, t, u) THEN [st EXCEPT ![t].status = s] ELSE st

\* mark-finished sets finished-at and status together
mark_task_finished(st, t, u, s, ts) ==
  IF task_exists(st, t, u)
    THEN [st EXCEPT ![t].status = s, ![t].finished_at = Some(ts)]
    ELSE st

set_task_output(st, t, out, u) ==
  IF task_exists(st, t, u) THEN [st EXCEPT ![t].output = Some(out)] ELSE st

set_task_error(st, t, err, u) ==
  IF task_exists(st, t, u) THEN [st EXCEPT ![t].error = Some(err)] ELSE st

add_task_step(st, t, step, u) ==
  IF task_exists(st, t, u) THEN [st EXCEPT ![t].steps = Append(@, step)] ELSE st

add_task_media(st, t, entry, u) ==
  IF task_exists(st, t, u) THEN [st EXCEPT ![t].media = Append(@, entry)] ELSE st

\* update_task merges the given fields into the record
update_task(st, t, fields, u) ==
  IF task_exists(st, t, u)
    THEN [st EXCEPT ![t] = [k \in DOMAIN @ |->
                              IF k \in DOMAIN fields THEN fields[k] ELSE @[k]]]
    ELSE st

\* agent-handle side-table, keyed by task id under the task's owner
get_task_agent(ag, st, t, u) ==
  IF task_exists(st, t, u) /\ t \in DOMAIN ag THEN Some(ag[t]) ELSE None

set_task_agent(ag, t, a) == [x \in (DOMAIN ag) \cup {t} |-> IF x = t THEN a ELSE ag[x]]

remove_task_agent(ag, st, t, u) ==
  IF task_exists(st, t, u) THEN [x \in (DOMAIN ag) \ {t} |-> ag[x]] ELSE ag

\* list_tasks(): owner-scoped listing; the sweep passes no owner, so the default
list_tasks(st, u) == {t \in DOMAIN st : st[t].owner = u}

\* --------------------------------------------------------- external agent
NewAgent == [stopped |-> FALSE, paused |-> FALSE]
agent_stop(a)   == [a EXCEPT !.stopped = TRUE]
agent_pause(a)  == [a EXCEPT !.paused = TRUE]
agent_resume(a) == [a EXCEPT !.paused = FALSE]

\* -------------------------------------------------------- webhook delivery
\* no call of trigger_webhook yet
\* (responses: for each POST made, whether it was answered 2xx; sleeps: the
\* delays slept, in seconds)
NoHook == [state |-> "idle", url |-> None, payload |-> None, responses |-> <<>>,
           sleeps |-> <<>>, returned |-> None]

\* the envelope: result only for "completed" with a result that is not None,
\* error only for "failed" with a non-empty error text; an absent key is None
webhook_payload(task_id, status, event_type, result, error, ts) ==
  [event |-> event_type, task_id |-> task_id, status |-> status, timestamp |-> ts,
   result |-> IF status = "completed" /\ result # None THEN result ELSE None,
   error |-> IF ~(status = "completed" /\ result # None)
                /\ status = "failed" /\ error # None /\ error # Some("")
               THEN error ELSE None]

\* trigger_webhook up to its first POST: no URL returns False, then the payload
\* is built, then a missing httpx returns False
trigger_webhook(webhook_url, task_id, status, event_type, result, error, ts, httpx) ==
  IF webhook_url = None \/ webhook_url = Some("")
    THEN [NoHook EXCEPT !.state = "returned", !.url = webhook_url,
                        !.returned = Some(FALSE)]
    ELSE LET payload == webhook_payload(task_id, status, event_type, result, error, ts)
         IN IF httpx
              THEN [NoHook EXCEPT !.state = "sending", !.url = webhook_url,
                                  !.payload = Some(payload)]
              ELSE [NoHook EXCEPT !.state = "returned", !.url = webhook_url,
                                  !.payload = Some(payload),
                                  !.returned = Some(FALSE)]

\* variant of the backoff that starts at two seconds
backoff_from_two(attempt) == 2 ^ (attempt + 1)

\* asyncio.sleep(2 ** attempt)
backoff(attempt) == 2 ^ attempt

\* variant that also sleeps after the last attempt
sleeps_after_always(attempt) == TRUE

\* `if attempt < max_retries - 1`
sleeps_after(attempt) == attempt < max_retries - 1

\* `for attempt in range(max_retries)`: is there an iteration after this one
more_attempts(attempt) == attempt + 1 < max_retries

\* variant of the retry loop that starts over when its attempts are used up
trigger_webhook_attempt_restarts(h, resp) ==
  IF resp = "2xx"
    THEN [h EXCEPT !.responses = Append(@, TRUE), !.state = "returned",
                   !.returned = Some(TRUE)]
    ELSE IF more_attempts(Len(h.responses))
      THEN [h EXCEPT !.responses = Append(@, FALSE)]
      ELSE [h EXCEPT !.responses = <<>>, !.sleeps = <<>>]

\* one iteration of the retry loop: the POST, its outcome, the sleep after it
trigger_webhook_attempt(h, resp) ==
  LET attempt == Len(h.responses)
      posted == [h EXCEPT !.responses = Append(@, resp = "2xx")]
      slept == IF sleeps_after(attempt)
                 THEN [posted EXCEPT !.sleeps = Append(@, backoff(attempt))]
                 ELSE posted
  IN IF resp = "2xx"
       THEN [posted EXCEPT !.state = "returned", !.returned = Some(TRUE)]
       ELSE IF more_attempts(attempt)
              THEN slept
              ELSE [slept EXCEPT !.state = "returned", !.returned = Some(FALSE)]

\* ----------------------------------------------------------- credential pool
PoolProviders == {"openai", "anthropic", "google", "azure", "bedrock", "ollama"}
\* the providers whose environment variables are set in SpecPool
Configured == {"openai", "google", "ollama"}
\* values of ai_provider a Run can be started with
AiProviders == {"openai", "google", "ollama", "azure", "bedrock", "mistral"}
PoolRuns == 1..MaxRuns

Key(i) == <<"key", i>>
KeyLists == {[i \in 1..n |-> Key(i)] : n \in 0..MaxKeys}
NoKeys == [p \in PoolProviders |-> [keys |-> <<>>, current_index |-> 0]]

\* variant of the cursor step that loses the update
advance_lost(i, n) == i

\* (current_index + 1) % len(keys)
advance(i, n) == (i + 1) % n

\* variant of next_key that reads the entry after the cursor
next_key_ahead(pool) ==
  IF Len(pool.keys) = 0
    THEN [key |-> None, index |-> pool.current_index, pool |-> pool]
    ELSE [key |-> Some(pool.keys[advance(pool.current_index, Len(pool.keys)) + 1]),
          index |-> advance(pool.current_index, Len(pool.keys)),
          pool |-> [pool EXCEPT !.current_index = advance(@, Len(pool.keys))]]

\* variant of next_key that moves the cursor of an empty pool
next_key_moves_empty(pool) ==
  IF Len(pool.keys) = 0
    THEN [key |-> None, index |-> pool.current_index,
          pool |-> [pool EXCEPT !.current_index = @ + 1]]
    ELSE [key |-> Some(pool.keys[pool.current_index + 1]),
          index |-> pool.current_index,
          pool |-> [pool EXCEPT !.current_index = advance(@, Len(pool.keys))]]

\* ProviderKeyPool.next_key: the key at the cursor (lists are 0-based in the
\* program, sequences 1-based here), and the pool with the cursor advanced
next_key(pool) ==
  IF Len(pool.keys) = 0
    THEN [key |-> None, index |-> pool.current_index, pool |-> pool]
    ELSE [key |-> Some(pool.keys[pool.current_index + 1]),
          index |-> pool.current_index,
          pool |-> [pool EXCEPT !.current_index = advance(@, Len(pool.keys))]]

\* LLMPoolManager.get_api_key / get_pooled_api_key: an unknown provider has no pool
get_api_key(pl, provider) ==
  IF provider \in DOMAIN pl
    THEN LET r == next_key(pl[provider])
         IN [called |-> TRUE, provider |-> provider, key |-> r.key, index |-> r.index,
             pools |-> [pl EXCEPT ![provider] = r.pool]]
    ELSE [called |-> TRUE, provider |-> provider, key |-> None, index |-> 0,
          pools |-> pl]

\* variant of get_llm that takes a pooled key for every provider that has a pool
get_llm_pools_all(pl, ai_provider) ==
  get_api_key(pl, IF ai_provider \in DOMAIN pl THEN ai_provider ELSE "openai")

\* get_llm: anthropic, google and the default (openai) take a pooled key;
\* ollama, azure and bedrock never ask the pool
get_llm(pl, ai_provider) ==
  IF ai_provider \in {"anthropic", "google"}
    THEN get_api_key(pl, ai_provider)
    ELSE IF ai_provider \in {"ollama", "azure", "bedrock"}
           THEN [called |-> FALSE, provider |-> ai_provider, key |-> None,
                 index |-> 0, pools |-> pl]
           ELSE get_api_key(pl, "openai")

\* --------------------------------------------------- loading the pools
\* the value of an environment variable is a str: a sequence of characters
Chars == {"a", "b", ",", " "}
EnvStrings == UNION {[1..n -> Chars] : n \in 0..MaxChars}

\* str.split(sep): the pieces between the separators, empty pieces included
\* ("".split(",") is [""], "a,".split(",") is ["a", ""])
RECURSIVE split(_, _)
split(str, sep) ==
  IF \A i \in 1..Len(str) : str[i] # sep
    THEN <<str>>
    ELSE LET i == CHOOSE j \in 1..Len(str) :
                    str[j] = sep /\ \A k \in 1..(j - 1) : str[k] # sep
         IN <<SubSeq(str, 1, i - 1)>> \o split(SubSeq(str, i + 1, Len(str)), sep)

\* str.strip(): without its leading and trailing whitespace
RECURSIVE strip(_)
strip(str) ==
  IF str = <<>> THEN str
  ELSE IF Head(str) = " " THEN strip(Tail(str))
  ELSE IF str[Len(str)] = " " THEN strip(SubSeq(str, 1, Len(str) - 1))
  ELSE str

\* [k.strip() for k in keys_str.split(',') if k.strip()]
stripped_entries(keys_str) ==
  LET pieces == split(keys_str, ",")
      kept == SelectSeq(pieces, LAMBDA k : strip(k) # <<>>)
  IN [i \in 1..Len(kept) |-> strip(kept[i])]

\* variant of _load_keys that does not fall back to the single key when the
\* list variable is set but holds no entry
load_keys_no_fallback(env, provider) ==
  LET keys_str == env[provider].keys
      single_key == env[provider].key
  IN IF keys_str # None /\ keys_str[1] # <<>>
       THEN stripped_entries(keys_str[1])
       ELSE IF single_key # None /\ single_key[1] # <<>>
              THEN <<single_key[1]>>
              ELSE <<>>

\* ProviderKeyPool._load_keys: os.environ.get gives None for an unset variable;
\* `if keys_str` and `if single_key` are false for None and for ""
load_keys(env, provider) ==
  LET keys_str == env[provider].keys
      single_key == env[provider].key
      keys == IF keys_str # None /\ keys_str[1] # <<>>
                THEN stripped_entries(keys_str[1])
                ELSE <<>>
  IN IF keys # <<>>
       THEN keys
       ELSE IF single_key # None /\ single_key[1] # <<>>
              THEN <<single_key[1]>>
              ELSE <<>>

\* ProviderKeyPool.__init__
ProviderKeyPool(env, provider) ==
  [keys |-> load_keys(env, provider), current_index |-> 0]

\* -------------------------------------------------- screenshot pipeline
max(a, b) == IF a >= b THEN a ELSE b
min(a, b) == IF a <= b THEN a ELSE b
abs(a) == IF a >= 0 THEN a ELSE 0 - a

\* b"\x89PNG\r\n\x1a\n", and the first eight bytes of a JPEG file
PNG_SIGNATURE == "89504E470D0A1A0A"
JPEG_HEAD == "FFD8FFE000104A46"
\* a bytes value: its first eight bytes and its length
Bytes(head, size) == [head |-> head, size |-> size]

\* what take_screenshot hands back: nothing, bytes, a str of base64 text
\* (size counts the base64 characters; data_url: it starts with "data:image/",
\* comma: a comma ends that prefix, padded: the text decodes) or another type
ScreenshotData(kind, data_url, comma, padded, head, size) ==
  [kind |-> kind, data_url |-> data_url, comma |-> comma, padded |-> padded,
   head |-> head, size |-> size]
NoData == ScreenshotData("none", FALSE, FALSE, FALSE, "", 0)
ByteData(head, size) == ScreenshotData("bytes", FALSE, FALSE, FALSE, head, size)
TextData(data_url, comma, padded, head, size) ==
  ScreenshotData("str", data_url, comma, padded, head, size)

\* `not screenshot_data`: None, b"" and ""
falsy(sd) ==
  \/ sd.kind = "none"
  \/ sd.kind = "bytes" /\ sd.size = 0
  \/ sd.kind = "str" /\ ~sd.data_url /\ sd.size = 0

\* base64.b64decode: four characters give three bytes
b64decode(sd) == Bytes(sd.head, (sd.size \div 4) * 3)

\* process_screenshot_data: the bytes, or None; a data URL without a comma
\* raises IndexError at split(",", 1)[1], outside the function's try
process_screenshot_data(sd) ==
  IF falsy(sd) THEN [raised |-> FALSE, image |-> None]
  ELSE IF sd.kind = "bytes"
    THEN [raised |-> FALSE, image |-> Some(Bytes(sd.head, sd.size))]
  ELSE IF sd.kind = "str"
    THEN IF sd.data_url /\ ~sd.comma THEN [raised |-> TRUE, image |-> None]
         ELSE IF ~sd.padded THEN [raised |-> FALSE, image |-> None]
         ELSE [raised |-> FALSE, image |-> Some(b64decode(sd))]
  ELSE [raised |-> FALSE, image |-> None]

\* variant of the tolerance without its lower bound of 1 KB
size_tolerance_no_floor(larger_size) == min(10240, larger_size \div 200)

\* max(1024, min(10240, int(larger_size * 0.005)))
size_tolerance(larger_size) == max(1024, min(10240, larger_size \div 200))

\* variant of the comparison that lets a difference equal to the tolerance pass
check_duplicate_screenshot_below(image_data, files) ==
  /\ image_data.size # 0
  /\ \E i \in 1..Len(files) :
       abs(files[i].size - image_data.size)
         < size_tolerance(max(files[i].size, image_data.size))

\* check_duplicate_screenshot: some *.png of the Task's directory is within the
\* tolerance of the candidate's size, `size_diff <= size_tolerance` (every file
\* the program writes is a .png)
check_duplicate_screenshot(image_data, files) ==
  /\ image_data.size # 0
  /\ \E i \in 1..Len(files) :
       abs(files[i].size - image_data.size)
         <= size_tolerance(max(files[i].size, image_data.size))

\* f"final-{timestamp}.png", f"status-step-{current_step}-{timestamp}.png",
\* f"status-{task_status_str}-{timestamp}.png"
final_name(timestamp) == "final-" \o ToString(timestamp) \o ".png"
step_name(current_step, timestamp) ==
  "status-step-" \o current_step \o "-" \o ToString(timestamp) \o ".png"
status_name(task_status_str, timestamp) ==
  "status-" \o task_status_str \o "-" \o ToString(timestamp) \o ".png"

\* task["steps"][-1]["step"] - 1, or "initial" without a task or without steps
current_step(task) ==
  IF task # None /\ task[1].steps # <<>>
    THEN ToString(task[1].steps[Len(task[1].steps)] - 1)
    ELSE "initial"

\* the filename validate_and_save_screenshot picks (its callers pass no task_status)
screenshot_filename(task, timestamp) ==
  IF task # None /\ task[1].status = FINISHED THEN final_name(timestamp)
  ELSE IF task # None /\ task[1].status = RUNNING
    THEN step_name(current_step(task), timestamp)
  ELSE status_name(IF task # None THEN task[1].status ELSE "unknown", timestamp)

\* open(path, "wb") and f.write: a file of that name is replaced
write_file(files, filename, size) ==
  IF \E i \in 1..Len(files) : files[i].filename = filename
    THEN [i \in 1..Len(files) |->
            IF files[i].filename = filename THEN [files[i] EXCEPT !.size = size]
            ELSE files[i]]
    ELSE Append(files, [filename |-> filename, size |-> size])

media_url(t, filename) == "/media/" \o ToString(t) \o "/" \o filename

\* variant of the validation that saves whatever bytes it is given
validate_and_save_screenshot_any(st, files, image_data, t, u, timestamp, write_ok) ==
  IF image_data.size = 0 \/ ~write_ok
    THEN [tasks |-> st, files |-> files, url |-> None]
    ELSE LET filename == screenshot_filename(get_task(st, t, u), timestamp)
         IN [tasks |-> add_task_media(st, t,
                         [url |-> media_url(t, filename), type |-> "screenshot",
                          filename |-> filename, created_at |-> timestamp], u),
             files |-> write_file(files, filename, image_data.size),
             url |-> Some(media_url(t, filename))]

\* validate_and_save_screenshot: nothing is created unless the bytes start with
\* the PNG signature; a write that fails (open raising) leaves no file and no entry
validate_and_save_screenshot(st, files, image_data, t, u, timestamp, write_ok) ==
  IF image_data.size = 0 \/ image_data.head # PNG_SIGNATURE \/ ~write_ok
    THEN [tasks |-> st, files |-> files, url |-> None]
    ELSE LET filename == screenshot_filename(get_task(st, t, u), timestamp)
         IN [tasks |-> add_task_media(st, t,
                         [url |-> media_url(t, filename), type |-> "screenshot",
                          filename |-> filename, created_at |-> timestamp], u),
             files |-> write_file(files, filename, image_data.size),
             url |-> Some(media_url(t, filename))]

\* what a run of the pipeline logs
Capture(entry, t, image, duplicate, save_error, url) ==
  [entry |-> entry, task |-> t, image |-> image, duplicate |-> duplicate,
   save_error |-> save_error, url |-> url]
NoCapture == Capture("none", 0, None, FALSE, FALSE, None)

\* the part automated_screenshot and capture_screenshot share, from the return
\* of take_screenshot on: decode, drop a duplicate, validate and save; whatever
\* raises is caught by the outer `except Exception`
save_capture(entry, st, files, sd, t, u, timestamp, write_ok) ==
  LET p == process_screenshot_data(sd)
      skipped == [tasks |-> st, files |-> files,
                  log |-> Capture(entry, t, p.image, FALSE, FALSE, None)]
  IN
  IF falsy(sd) \/ p.raised \/ p.image = None THEN skipped
  ELSE IF p.image[1].size = 0 THEN skipped
  ELSE IF check_duplicate_screenshot(p.image[1], files)
    THEN [skipped EXCEPT !.log.duplicate = TRUE]
  ELSE LET v == validate_and_save_screenshot(st, files, p.image[1], t, u,
                                             timestamp, write_ok)
       IN [tasks |-> v.tasks, files |-> v.files,
           log |-> Capture(entry, t, p.image, FALSE,
                           p.image[1].head = PNG_SIGNATURE /\ ~write_ok, v.url)]

\* what the process starts with when nothing is configured and nothing written
NoEnv == [p \in PoolProviders |-> [keys |-> None, key |-> None]]
NoMedia == [t \in TaskIds |-> <<>>]

\* ---------------------------------------------------------------- requests
\* what a client can put in the body of POST /api/v1/run-task
\* (a subscription list comes with a URL)
Requests == {r \in [webhook_url : {None, Some(WEBHOOK_URL)},
                    webhook_events : SUBSET WebhookEvents,
                    save_browser_data : BOOLEAN] :
               r.webhook_url = None => r.webhook_events = {}}
NoRequest == [webhook_url |-> None, webhook_events |-> {}, save_browser_data |-> FALSE]

\* -------------------------------------------------------------------- Init
Init ==
  /\ tasks = <<>>
  /\ agents = [x \in {} |-> NewAgent]
  /\ pc = [t \in TaskIds |-> "absent"]
  /\ outcome = [t \in TaskIds |-> "none"]
  /\ raised = [t \in TaskIds |-> None]
  /\ browser = [t \in TaskIds |-> "none"]
  /\ current = 0
  /\ now = [t \in TaskIds |-> 0]
  /\ shutdown = FALSE
  /\ calls = <<>>
  /\ reply = NoReply
  /\ request = [t \in TaskIds |-> NoRequest]
  /\ hook = [t \in TaskIds |-> NoHook]
  /\ cleaned = [t \in TaskIds |-> {}]
  /\ pools = NoKeys
  /\ run_key = [r \in PoolRuns |-> None]
  /\ handed = <<>>
  /\ environ = NoEnv
  /\ media_dir = NoMedia
  /\ polls = <<>>
  /\ captured = NoCapture

\* handlers run only between steps of other coroutines and while serving
Serving == ~shutdown /\ current = 0

\* ------------------------------------------------------------------ Submit
\* a Task record that carries webhook settings next to the stored fields: what
\* execute_task reads with task.get("webhook_url") and task.get("webhook_events")
task_data_with_webhook(u, req) ==
  [owner |-> u, status |-> CREATED, finished_at |-> None,
   output |-> None, error |-> None, steps |-> <<>>,
   save_browser_data |-> req.save_browser_data, browser_data |-> None,
   webhook_url |-> req.webhook_url, webhook_events |-> req.webhook_events,
   media |-> <<>>]

\* the record run_task stores: save_browser_data is copied from the request,
\* webhook_url and webhook_events are not keys of it (a later .get reads None
\* and the empty list), and neither is media (a later .get reads the empty list)
task_data(u, req) ==
  [owner |-> u, status |-> CREATED, finished_at |-> None,
   output |-> None, error |-> None, steps |-> <<>>,
   save_browser_data |-> req.save_browser_data, browser_data |-> None,
   webhook_url |-> None, webhook_events |-> {}, media |-> <<>>]

\* the caller-facing live reference of a Task
live_url(t) == "/live/" \o ToString(t)

run_task(u, req) ==
  /\ Serving
  /\ Len(tasks) < MaxTasks
  /\ LET t == Len(tasks) + 1
     IN /\ tasks' = create_task(tasks, task_data(u, req))
        /\ pc' = [pc EXCEPT ![t] = "scheduled"]
        /\ request' = [request EXCEPT ![t] = req]
        /\ reply' = [NoReply EXCEPT !.op = "run_task", !.task = t, !.user = u,
                                    !.code = 200, !.status = CREATED,
                                    !.live_url = live_url(t)]
  /\ calls' = <<>>
  /\ UNCHANGED <<agents, outcome, raised, browser, current, now, shutdown>>
  /\ UNCHANGED <<hook, cleaned, poolVars, environ, shotVars>>

\* -------------------------------------------------- execute_task (the Run)
\* variant of process_task_result that stores final_result() as it is
process_task_result_raw(st, t, u, result) ==
  IF result = None THEN st ELSE set_task_output(st, t, result[1], u)

\* process_task_result: output is final_result() or ""
process_task_result(st, t, u, result) ==
  set_task_output(st, t, IF result = None THEN "" ELSE result[1], u)

\* variant of the success branch that stores the output without marking the
\* Task finished
record_success_unmarked(st, t, u, result, ts) ==
  process_task_result(st, t, u, result)

\* success branch: mark_task_finished(FINISHED), then process_task_result
record_success(st, t, u, result, ts) ==
  process_task_result(mark_task_finished(st, t, u, FINISHED, ts), t, u, result)

\* variant of the except branch that records no error text
record_failure_no_text(st, t, u, text, ts) ==
  mark_task_finished(update_task_status(st, t, FAILED, u), t, u, FAILED, ts)

\* except branch: status FAILED, error str(e), mark_task_finished(FAILED)
record_failure(st, t, u, text, ts) ==
  mark_task_finished(
    set_task_error(update_task_status(st, t, FAILED, u), t, text, u),
    t, u, FAILED, ts)

\* `if webhook_url and "<event>" in webhook_events`
wants_webhook(task, event) ==
  /\ task.webhook_url # None
  /\ task.webhook_url # Some("")
  /\ event \in task.webhook_events

\* success path: trigger_webhook("completed", "task.completed", result=output)
\* when subscribed, with the output read back from the store
completed_hook(st, t, ts, httpx) ==
  IF wants_webhook(st[t], "task.completed")
    THEN trigger_webhook(st[t].webhook_url, t, "completed", "task.completed",
                         st[t].output, None, ts, httpx)
    ELSE NoHook

\* failure path: trigger_webhook("failed", "task.failed", error=str(e)) when
\* subscribed
failed_hook(st, t, text, ts, httpx) ==
  IF wants_webhook(st[t], "task.failed")
    THEN trigger_webhook(st[t].webhook_url, t, "failed", "task.failed",
                         None, Some(text), ts, httpx)
    ELSE NoHook

\* variant in which the Run, once delivery has returned, comes back to the
\* statements before it
after_hook_again(h) == IF h.state = "sending" THEN "webhook" ELSE "cookies"

\* where the Run goes after calling (or not calling) trigger_webhook
after_hook(h) == IF h.state = "sending" THEN "webhook" ELSE "cleanup"

\* variant of the cookie step whose own failure fails the Task
collect_browser_cookies_fails_task(st, t, u, how) ==
  IF how = "error"
    THEN update_task_status(st, t, FAILED, u)
    ELSE update_task(st, t, [browser_data |-> Some([cookies |-> "empty", error |-> None])], u)

\* collect_browser_cookies once save_browser_data is set: the cookies read, an
\* empty list when the browser is gone, or the error slot when collecting raises
collect_browser_cookies(st, t, u, how) ==
  update_task(st, t,
    [browser_data |->
       Some(IF how = "collected" THEN [cookies |-> "some", error |-> None]
            ELSE IF how = "closed" THEN [cookies |-> "empty", error |-> None]
            ELSE [cookies |-> "empty", error |-> Some("boom")])], u)

\* first step of the coroutine: update_task_status(RUNNING)
execute_task_start(t) ==
  /\ current = 0
  /\ pc[t] = "scheduled"
  /\ tasks' = update_task_status(tasks, t, RUNNING, tasks[t].owner)
  /\ pc' = [pc EXCEPT ![t] = "setup"]
  /\ current' = t
  /\ calls' = <<>>
  /\ reply' = NoReply
  /\ UNCHANGED <<agents, outcome, raised, browser, now, shutdown>>
  /\ UNCHANGED <<request, hook, cleaned, poolVars, environ, shotVars>>

\* variant of the set-up that suspends in agent.run() with no handle registered
execute_task_setup_unregistered(t) ==
  /\ current = t
  /\ pc[t] = "setup"
  /\ browser' = [browser EXCEPT ![t] = "open"]
  /\ pc' = [pc EXCEPT ![t] = "agent_run"]
  /\ current' = 0
  /\ calls' = <<>>
  /\ reply' = NoReply
  /\ UNCHANGED <<tasks, agents, outcome, raised, now, shutdown>>
  /\ UNCHANGED <<request, hook, cleaned, poolVars, environ, shotVars>>

\* get_llm, configure_browser_profile, Agent(...) succeed; set_task_agent;
\* the coroutine suspends in `await agent.run()`.  No key is configured in this
\* specification, so get_llm leaves every cursor where it is.
execute_task_setup(t) ==
  /\ current = t
  /\ pc[t] = "setup"
  /\ agents' = set_task_agent(agents, t, NewAgent)
  /\ browser' = [browser EXCEPT ![t] = "open"]
  /\ pc' = [pc EXCEPT ![t] = "agent_run"]
  /\ current' = 0
  /\ calls' = <<>>
  /\ reply' = NoReply
  /\ UNCHANGED <<tasks, outcome, raised, now, shutdown>>
  /\ UNCHANGED <<request, hook, cleaned, poolVars, environ, shotVars>>

\* the handler `except Exception as e` of execute_task, with its webhook
except_handler(t, text, httpx) ==
  /\ tasks' = record_failure(tasks, t, tasks[t].owner, text, now[t] + 1)
  /\ now' = [now EXCEPT ![t] = @ + 1]
  /\ outcome' = [outcome EXCEPT ![t] = "raised"]
  /\ raised' = [raised EXCEPT ![t] = Some(text)]
  /\ hook' = [hook EXCEPT ![t] = failed_hook(tasks', t, text, now[t] + 1, httpx)]
  /\ pc' = [pc EXCEPT ![t] = after_hook(hook'[t])]

\* credential / configuration resolution or agent construction raises
execute_task_setup_raises(t, stage, text, httpx) ==
  /\ current = t
  /\ pc[t] = "setup"
  /\ except_handler(t, text, httpx)
  /\ browser' = [browser EXCEPT ![t] = IF stage = "agent" THEN "open" ELSE "none"]
  /\ current' = 0
  /\ calls' = <<>>
  /\ reply' = NoReply
  /\ UNCHANGED <<agents, shutdown>>
  /\ UNCHANGED <<request, cleaned, poolVars, environ, shotVars>>

\* agent.run() returns a history: success branch up to the first await after it
agent_run_returns(t, result, httpx) ==
  /\ current = 0
  /\ pc[t] = "agent_run"
  /\ tasks' = record_success(tasks, t, tasks[t].owner, result, now[t] + 1)
  /\ now' = [now EXCEPT ![t] = @ + 1]
  /\ outcome' = [outcome EXCEPT ![t] = "returned"]
  /\ IF tasks[t].save_browser_data
       THEN /\ hook' = hook
            /\ pc' = [pc EXCEPT ![t] = "cookies"]
       ELSE /\ hook' = [hook EXCEPT ![t] = completed_hook(tasks', t, now[t] + 1, httpx)]
            /\ pc' = [pc EXCEPT ![t] = after_hook(hook'[t])]
  /\ calls' = <<>>
  /\ reply' = NoReply
  /\ UNCHANGED <<agents, raised, browser, current, shutdown>>
  /\ UNCHANGED <<request, cleaned, poolVars, environ, shotVars>>

\* agent.run() raises: except branch
agent_run_raises(t, text, httpx) ==
  /\ current = 0
  /\ pc[t] = "agent_run"
  /\ except_handler(t, text, httpx)
  /\ calls' = <<>>
  /\ reply' = NoReply
  /\ UNCHANGED <<agents, browser, current, shutdown>>
  /\ UNCHANGED <<request, cleaned, poolVars, environ, shotVars>>

\* collect_browser_cookies ends, then the success webhook is decided
execute_task_cookies(t, how, httpx) ==
  /\ current = 0
  /\ pc[t] = "cookies"
  /\ tasks' = collect_browser_cookies(tasks, t, tasks[t].owner, how)
  /\ hook' = [hook EXCEPT ![t] = completed_hook(tasks', t, now[t], httpx)]
  /\ pc' = [pc EXCEPT ![t] = after_hook(hook'[t])]
  /\ calls' = <<>>
  /\ reply' = NoReply
  /\ UNCHANGED <<agents, outcome, raised, browser, current, now, shutdown>>
  /\ UNCHANGED <<request, cleaned, poolVars, environ, shotVars>>

\* one iteration of trigger_webhook's loop inside the Run
execute_task_webhook(t, resp) ==
  /\ current = 0
  /\ pc[t] = "webhook"
  /\ hook[t].state = "sending"
  /\ hook' = [hook EXCEPT ![t] = trigger_webhook_attempt(@, resp)]
  /\ pc' = [pc EXCEPT ![t] = after_hook(hook'[t])]
  /\ calls' = <<>>
  /\ reply' = NoReply
  /\ UNCHANGED <<tasks, agents, outcome, raised, browser, current, now, shutdown>>
  /\ UNCHANGED <<request, cleaned, poolVars, environ, shotVars>>

\* variant of step 1 that never asks the agent to stop
cleanup_agent_stop_skipped(ag, st, t, u, stop_raises) ==
  [agents |-> ag, calls |-> <<>>, asked |-> {}]

\* cleanup_task step 1: agent.stop() on the registered handle; an exception
\* out of it is logged
cleanup_agent_stop(ag, st, t, u, stop_raises) ==
  LET a == get_task_agent(ag, st, t, u)
  IN IF a = None
       THEN [agents |-> ag, calls |-> <<>>, asked |-> {}]
       ELSE [agents |-> IF stop_raises THEN ag ELSE [ag EXCEPT ![t] = agent_stop(a[1])],
             calls |-> IF stop_raises THEN << <<t, "stop">>, <<t, "stop raised">> >>
                                      ELSE << <<t, "stop">> >>,
             asked |-> {"agent.stop"}]

\* variant of the except clauses that records the cleanup error on the Task
cleanup_error_fails_task(st, t, u) ==
  set_task_error(update_task_status(st, t, FAILED, u), t, "cleanup", u)

\* the except clauses of cleanup_task only log
cleanup_error_logged(st, t, u) == st

\* cleanup_task up to `await browser.stop()`; with no browser (set-up raised
\* before one existed) there is no await and step 3 follows at once
cleanup_task_stop(t, stop_raises) ==
  /\ current = 0
  /\ pc[t] = "cleanup"
  /\ stop_raises => get_task_agent(agents, tasks, t, tasks[t].owner) # None
  /\ LET s1 == cleanup_agent_stop(agents, tasks, t, tasks[t].owner, stop_raises)
     IN /\ calls' = s1.calls
        /\ IF browser[t] = "none"
             THEN /\ agents' = remove_task_agent(s1.agents, tasks, t, tasks[t].owner)
                  /\ cleaned' = [cleaned EXCEPT ![t] = s1.asked \cup {"remove"}]
                  /\ pc' = [pc EXCEPT ![t] = "done"]
             ELSE /\ agents' = s1.agents
                  /\ cleaned' = [cleaned EXCEPT ![t] = s1.asked \cup {"browser.stop"}]
                  /\ pc' = [pc EXCEPT ![t] = "closing"]
  /\ tasks' = IF stop_raises
                THEN cleanup_error_logged(tasks, t, tasks[t].owner) ELSE tasks
  /\ reply' = NoReply
  /\ UNCHANGED <<outcome, raised, browser, current, now, shutdown>>
  /\ UNCHANGED <<request, hook, poolVars, environ, shotVars>>

\* browser.stop() returns or raises (the session then stays as it was), then
\* step 3: remove_task_agent
cleanup_task_remove(t, close_raises) ==
  /\ current = 0
  /\ pc[t] = "closing"
  /\ browser' = [browser EXCEPT ![t] = IF close_raises THEN @ ELSE "closed"]
  /\ tasks' = IF close_raises
                THEN cleanup_error_logged(tasks, t, tasks[t].owner) ELSE tasks
  /\ agents' = remove_task_agent(agents, tasks, t, tasks[t].owner)
  /\ cleaned' = [cleaned EXCEPT ![t] = @ \cup {"remove"}]
  /\ pc' = [pc EXCEPT ![t] = "done"]
  /\ calls' = <<>>
  /\ reply' = NoReply
  /\ UNCHANGED <<outcome, raised, current, now, shutdown>>
  /\ UNCHANGED <<request, hook, poolVars, environ, shotVars>>

\* ------------------------------------------------------------- API handlers
NotFound(op, t, u) ==
  [NoReply EXCEPT !.op = op, !.task = t, !.user = u, !.code = 404,
                  !.message = "Task not found"]

Message(op, t, u, msg) ==
  [NoReply EXCEPT !.op = op, !.task = t, !.user = u, !.code = 200, !.message = msg]

\* variant of the poll's step number that repeats the last one
step_info_repeats(task) == max(1, Len(task.steps))

\* the step record of a poll: `current_step = len(task.get("steps", [])) + 1`
\* (its timestamp and texts are not observed)
step_info(task) == Len(task.steps) + 1

\* variant of the terminal list without FAILED
StopTerminal_no_failed == {FINISHED, STOPPED}

\* the statuses stop_task treats as terminal
StopTerminal == {FINISHED, FAILED, STOPPED}

\* variant of the agent branch that writes STOPPED
stop_with_agent_stopped(st, t, u) == update_task_status(st, t, STOPPED, u)

\* stop_task, agent found: update_task_status(STOPPING)
stop_with_agent(st, t, u) == update_task_status(st, t, STOPPING, u)

\* stop_task, no agent: update_task_status(STOPPED), mark_task_finished(STOPPED)
stop_without_agent(st, t, u, ts) ==
  mark_task_finished(update_task_status(st, t, STOPPED, u), t, u, STOPPED, ts)

\* PUT /stop-task
stop_task(t, u) ==
  /\ Serving
  /\ LET task == get_task(tasks, t, u)
         agent == get_task_agent(agents, tasks, t, u)
     IN IF task = None
          THEN /\ reply' = NotFound("stop_task", t, u)
               /\ UNCHANGED <<tasks, agents, now>>
               /\ calls' = <<>>
          ELSE IF task[1].status \in StopTerminal
          THEN /\ reply' = [Message("stop_task", t, u, "Task already in terminal state")
                              EXCEPT !.status = task[1].status]
               /\ UNCHANGED <<tasks, agents, now>>
               /\ calls' = <<>>
          ELSE IF agent # None
          THEN /\ agents' = [agents EXCEPT ![t] = agent_stop(agent[1])]
               /\ calls' = << <<t, "stop">> >>
               /\ tasks' = stop_with_agent(tasks, t, u)
               /\ reply' = Message("stop_task", t, u, "Task stopping")
               /\ UNCHANGED now
          ELSE /\ tasks' = stop_without_agent(tasks, t, u, now[t] + 1)
               /\ now' = [now EXCEPT ![t] = @ + 1]
               /\ reply' = Message("stop_task", t, u, "Task stopped (no agent found)")
               /\ calls' = <<>>
               /\ UNCHANGED agents
  /\ UNCHANGED <<pc, outcome, raised, browser, current, shutdown>>
  /\ UNCHANGED <<request, hook, cleaned, poolVars, environ, shotVars>>

\* variant of the validation that skips the status comparison
validate_task_any_status(st, ag, t, u, expected_status) ==
  LET task == get_task(st, t, u)
  IN IF task = None THEN [found |-> FALSE, matches |-> FALSE, agent |-> None]
     ELSE [found |-> TRUE, matches |-> TRUE, agent |-> get_task_agent(ag, st, t, u)]

\* _validate_task_and_get_agent: 404 for an unknown task, (None, message) on a
\* status mismatch, else (agent, task)
validate_task_and_get_agent(st, ag, t, u, expected_status) ==
  LET task == get_task(st, t, u)
  IN IF task = None THEN [found |-> FALSE, matches |-> FALSE, agent |-> None]
     ELSE IF task[1].status # expected_status
       THEN [found |-> TRUE, matches |-> FALSE, agent |-> None]
       ELSE [found |-> TRUE, matches |-> TRUE, agent |-> get_task_agent(ag, st, t, u)]

\* body shared by pause_task and resume_task
pause_or_resume(op, t, u, expected_status, method, new_status, done, missing) ==
  /\ Serving
  /\ LET v == validate_task_and_get_agent(tasks, agents, t, u, expected_status)
     IN IF ~v.found
          THEN /\ reply' = NotFound(op, t, u)
               /\ UNCHANGED <<tasks, agents>>
               /\ calls' = <<>>
          ELSE IF ~v.matches
          THEN /\ reply' = [Message(op, t, u, "Task status is not the expected one")
                              EXCEPT !.status = tasks[t].status]
               /\ UNCHANGED <<tasks, agents>>
               /\ calls' = <<>>
          ELSE IF v.agent # None
          THEN /\ agents' = [agents EXCEPT ![t] =
                               IF method = "pause" THEN agent_pause(v.agent[1])
                                                   ELSE agent_resume(v.agent[1])]
               /\ calls' = << <<t, method>> >>
               /\ tasks' = update_task_status(tasks, t, new_status, u)
               /\ reply' = Message(op, t, u, done)
          ELSE /\ reply' = Message(op, t, u, missing)
               /\ UNCHANGED <<tasks, agents>>
               /\ calls' = <<>>
  /\ UNCHANGED <<pc, outcome, raised, browser, current, now, shutdown>>
  /\ UNCHANGED <<request, hook, cleaned, poolVars, environ, shotVars>>

\* PUT /pause-task
pause_task(t, u) ==
  pause_or_resume("pause_task", t, u, RUNNING, "pause", PAUSED,
                  "Task paused", "Task could not be paused (no agent found)")

\* PUT /resume-task
resume_task(t, u) ==
  pause_or_resume("resume_task", t, u, PAUSED, "resume", RUNNING,
                  "Task resumed", "Task could not be resumed (no agent found)")

\* GET /task/{id}/status (Poll) as one step: a step record is appended while
\* running; its capture is in get_task_status_begin / get_task_status_capture
get_task_status(t, u) ==
  /\ Serving
  /\ LET task == get_task(tasks, t, u)
     IN IF task = None
          THEN /\ reply' = NotFound("get_task_status", t, u)
               /\ UNCHANGED tasks
          ELSE /\ task[1].status = RUNNING => Len(task[1].steps) < MaxSteps
               /\ tasks' = IF task[1].status = RUNNING
                             THEN add_task_step(tasks, t, step_info(task[1]), u)
                             ELSE tasks
               /\ reply' = [NoReply EXCEPT !.op = "get_task_status", !.task = t,
                              !.user = u, !.code = 200, !.status = task[1].status,
                              !.result = task[1].output, !.error = task[1].error]
  /\ calls' = <<>>
  /\ UNCHANGED <<agents, pc, outcome, raised, browser, current, now, shutdown>>
  /\ UNCHANGED <<request, hook, cleaned, poolVars, environ, shotVars>>

\* --------------------------------------------------------------- Shutdown
\* body of the sweep's loop for one listed task id (all calls pass no owner):
\* agent.stop() has a try of its own, so its exception is logged and the body
\* goes on; the store calls have none, so an exception out of one of them (here
\* update_task_status) leaves the loop for the function's outer except, after
\* the handle was removed and before any status was written
sweep_one(s, t, stop_raises, update_raises) ==
  LET task == get_task(s.tasks, t, DEFAULT_USER_ID)
      agent == get_task_agent(s.agents, s.tasks, t, DEFAULT_USER_ID)
      asked == IF agent = None THEN s.calls
               ELSE IF t \in stop_raises
                 THEN s.calls \o << <<t, "stop">>, <<t, "stop raised">> >>
                 ELSE Append(s.calls, <<t, "stop">>)
      removed == IF agent # None
                   THEN remove_task_agent(s.agents, s.tasks, t, DEFAULT_USER_ID)
                   ELSE s.agents
  IN IF s.aborted \/ task = None \/ task[1].status \notin {RUNNING, PAUSED} THEN s
     ELSE IF t \in update_raises
       THEN [s EXCEPT !.agents = removed,
                      !.calls = Append(asked, <<t, "update raised">>),
                      !.aborted = TRUE]
       ELSE [tasks  |-> mark_task_finished(
                          update_task_status(s.tasks, t, STOPPED, DEFAULT_USER_ID),
                          t, DEFAULT_USER_ID, STOPPED, s.now[t] + 1),
             agents |-> removed,
             now    |-> [s.now EXCEPT ![t] = @ + 1],
             calls  |-> asked,
             aborted |-> FALSE]

RECURSIVE sweep(_, _, _, _, _)
sweep(s, ids, i, stop_raises, update_raises) ==
  IF i > Len(s.tasks) THEN s
  ELSE sweep(IF i \in ids THEN sweep_one(s, i, stop_raises, update_raises) ELSE s,
             ids, i + 1, stop_raises, update_raises)

\* lifespan shutdown: cleanup_all_tasks(task_storage); whatever is raised
\* inside is logged by the outer except, and the function returns
cleanup_all_tasks(stop_raises, update_raises) ==
  /\ Serving
  /\ LET r == sweep([tasks |-> tasks, agents |-> agents, now |-> now, calls |-> <<>>,
                     aborted |-> FALSE],
                    list_tasks(tasks, DEFAULT_USER_ID), 1, stop_raises, update_raises)
     IN /\ tasks' = r.tasks
        /\ agents' = r.agents
        /\ now' = r.now
        /\ calls' = r.calls
  /\ shutdown' = TRUE
  /\ reply' = NoReply
  /\ UNCHANGED <<pc, outcome, raised, browser, current>>
  /\ UNCHANGED <<request, hook, cleaned, poolVars, environ, shotVars>>

\* -------------------------------------------------------------------- Next
Next ==
  \/ \E u \in Users, req \in Requests : run_task(u, req)
  \/ \E t \in DOMAIN tasks : execute_task_start(t)
  \/ \E t \in DOMAIN tasks : execute_task_setup(t)
  \/ \E t \in DOMAIN tasks, stage \in SetupStages, text \in ExcTexts, httpx \in BOOLEAN :
       execute_task_setup_raises(t, stage, text, httpx)
  \/ \E t \in DOMAIN tasks, result \in FinalResults, httpx \in BOOLEAN :
       agent_run_returns(t, result, httpx)
  \/ \E t \in DOMAIN tasks, text \in ExcTexts, httpx \in BOOLEAN :
       agent_run_raises(t, text, httpx)
  \/ \E t \in DOMAIN tasks, how \in CookieOutcomes, httpx \in BOOLEAN :
       execute_task_cookies(t, how, httpx)
  \/ \E t \in DOMAIN tasks, stop_raises \in BOOLEAN : cleanup_task_stop(t, stop_raises)
  \/ \E t \in DOMAIN tasks, close_raises \in BOOLEAN : cleanup_task_remove(t, close_raises)
  \/ \E t \in TaskIds, u \in Users : stop_task(t, u)
  \/ \E t \in TaskIds, u \in Users : pause_task(t, u)
  \/ \E t \in TaskIds, u \in Users : resume_task(t, u)
  \/ \E t \in TaskIds, u \in Users : get_task_status(t, u)
  \/ \E stop_raises \in SUBSET TaskIds, update_raises \in SUBSET TaskIds :
       cleanup_all_tasks(stop_raises, update_raises)

Spec == Init /\ [][Next]_vars

\* ------------------------------------- execute_task on a Task with a webhook
\* the store holds one Task whose record carries webhook settings, and its Run
\* is scheduled
InitHooks ==
  /\ \E req \in Requests :
       tasks = <<task_data_with_webhook(DEFAULT_USER_ID, req)>>
  /\ agents = [x \in {} |-> NewAgent]
  /\ pc = [t \in TaskIds |-> IF t = 1 THEN "scheduled" ELSE "absent"]
  /\ outcome = [t \in TaskIds |-> "none"]
  /\ raised = [t \in TaskIds |-> None]
  /\ browser = [t \in TaskIds |-> "none"]
  /\ current = 0
  /\ now = [t \in TaskIds |-> 0]
  /\ shutdown = FALSE
  /\ calls = <<>>
  /\ reply = NoReply
  /\ request = [t \in TaskIds |-> NoRequest]
  /\ hook = [t \in TaskIds |-> NoHook]
  /\ cleaned = [t \in TaskIds |-> {}]
  /\ pools = NoKeys
  /\ run_key = [r \in PoolRuns |-> None]
  /\ handed = <<>>
  /\ environ = NoEnv
  /\ media_dir = NoMedia
  /\ polls = <<>>
  /\ captured = NoCapture

NextHooks ==
  \/ \E t \in DOMAIN tasks : execute_task_start(t)
  \/ \E t \in DOMAIN tasks : execute_task_setup(t)
  \/ \E t \in DOMAIN tasks, stage \in SetupStages, text \in ExcTexts, httpx \in BOOLEAN :
       execute_task_setup_raises(t, stage, text, httpx)
  \/ \E t \in DOMAIN tasks, result \in FinalResults, httpx \in BOOLEAN :
       agent_run_returns(t, result, httpx)
  \/ \E t \in DOMAIN tasks, text \in ExcTexts, httpx \in BOOLEAN :
       agent_run_raises(t, text, httpx)
  \/ \E t \in DOMAIN tasks, how \in CookieOutcomes, httpx \in BOOLEAN :
       execute_task_cookies(t, how, httpx)
  \/ \E t \in DOMAIN tasks, resp \in Responses : execute_task_webhook(t, resp)
  \/ \E t \in DOMAIN tasks, stop_raises \in BOOLEAN : cleanup_task_stop(t, stop_raises)
  \/ \E t \in DOMAIN tasks, close_raises \in BOOLEAN : cleanup_task_remove(t, close_raises)
  \/ \E t \in TaskIds, u \in Users : stop_task(t, u)
  \/ \E t \in TaskIds, u \in Users : pause_task(t, u)
  \/ \E t \in TaskIds, u \in Users : resume_task(t, u)
  \/ \E t \in TaskIds, u \in Users : get_task_status(t, u)
  \/ \E stop_raises \in SUBSET TaskIds, update_raises \in SUBSET TaskIds :
       cleanup_all_tasks(stop_raises, update_raises)

SpecHooks == InitHooks /\ [][NextHooks]_vars

\* the steps of a Run after agent.run() has ended: each awaits something that
\* answers or fails in bounded time (the cookie read, one POST under httpx's
\* 10 s timeout and the sleep after it, browser.stop()), and the event loop
\* resumes the coroutine when it does
execute_task_resumes(t) ==
  \/ \E how \in CookieOutcomes, httpx \in BOOLEAN : execute_task_cookies(t, how, httpx)
  \/ \E resp \in Responses : execute_task_webhook(t, resp)
  \/ \E stop_raises \in BOOLEAN : cleanup_task_stop(t, stop_raises)
  \/ \E close_raises \in BOOLEAN : cleanup_task_remove(t, close_raises)

\* SpecHooks with every Run resumed whenever what it awaits has ended
SpecHooksFair ==
  InitHooks /\ [][NextHooks]_vars /\ \A t \in TaskIds : WF_vars(execute_task_resumes(t))

\* --------------------------------------------- trigger_webhook on its own
\* arguments a caller can pass to trigger_webhook
HookUrls == {None, Some(""), Some(WEBHOOK_URL)}
HookStatuses == {"completed", "failed", "stopped"}
HookResults == {None, Some(""), Some("answer")}
HookErrors == {None, Some(""), Some("boom")}
\* readings of the clock at the call
HookTimes == {0, 1}

\* trigger_webhook has been called with some arguments and is about to POST
InitWebhook ==
  /\ \E url \in HookUrls, status \in HookStatuses, event \in WebhookEvents,
        result \in HookResults, error \in HookErrors, ts \in HookTimes,
        httpx \in BOOLEAN :
       hook = [t \in TaskIds |->
                 IF t = 1
                   THEN trigger_webhook(url, t, status, event, result, error, ts, httpx)
                   ELSE NoHook]
  /\ tasks = <<>>
  /\ agents = [x \in {} |-> NewAgent]
  /\ pc = [t \in TaskIds |-> "absent"]
  /\ outcome = [t \in TaskIds |-> "none"]
  /\ raised = [t \in TaskIds |-> None]
  /\ browser = [t \in TaskIds |-> "none"]
  /\ current = 0
  /\ now = [t \in TaskIds |-> 0]
  /\ shutdown = FALSE
  /\ calls = <<>>
  /\ reply = NoReply
  /\ request = [t \in TaskIds |-> NoRequest]
  /\ cleaned = [t \in TaskIds |-> {}]
  /\ pools = NoKeys
  /\ run_key = [r \in PoolRuns |-> None]
  /\ handed = <<>>
  /\ environ = NoEnv
  /\ media_dir = NoMedia
  /\ polls = <<>>
  /\ captured = NoCapture

\* one iteration of the retry loop of the call
trigger_webhook_post(t, resp) ==
  /\ hook[t].state = "sending"
  /\ hook' = [hook EXCEPT ![t] = trigger_webhook_attempt(@, resp)]
  /\ UNCHANGED <<tasks, agents, pc, outcome, raised, browser, current, now, shutdown,
                 calls, reply, request, cleaned, poolVars, environ, shotVars>>

NextWebhook == \E t \in TaskIds, resp \in Responses : trigger_webhook_post(t, resp)

SpecWebhook == InitWebhook /\ [][NextWebhook]_vars

\* ------------------------------------------- the pool under starting Runs
\* the process starts with the key lists the environment configures
InitPool ==
  /\ \E ks \in [Configured -> KeyLists] :
       pools = [p \in PoolProviders |->
                  [keys |-> IF p \in Configured THEN ks[p] ELSE <<>>,
                   current_index |-> 0]]
  /\ run_key = [r \in PoolRuns |-> None]
  /\ handed = <<>>
  /\ environ = NoEnv
  /\ media_dir = NoMedia
  /\ polls = <<>>
  /\ captured = NoCapture
  /\ tasks = <<>>
  /\ agents = [x \in {} |-> NewAgent]
  /\ pc = [t \in TaskIds |-> "absent"]
  /\ outcome = [t \in TaskIds |-> "none"]
  /\ raised = [t \in TaskIds |-> None]
  /\ browser = [t \in TaskIds |-> "none"]
  /\ current = 0
  /\ now = [t \in TaskIds |-> 0]
  /\ shutdown = FALSE
  /\ calls = <<>>
  /\ reply = NoReply
  /\ request = [t \in TaskIds |-> NoRequest]
  /\ hook = [t \in TaskIds |-> NoHook]
  /\ cleaned = [t \in TaskIds |-> {}]

\* a starting Run resolves its model: `llm = get_llm(ai_provider)`, one
\* synchronous call, so whole Runs interleave but never two halves of next_key
execute_task_get_llm(r, ai_provider) ==
  /\ run_key[r] = None
  /\ LET g == get_llm(pools, ai_provider)
     IN /\ pools' = g.pools
        /\ run_key' = [run_key EXCEPT ![r] = Some([provider |-> ai_provider, key |-> g.key])]
        /\ handed' = IF g.called
                       THEN Append(handed, [provider |-> g.provider, index |-> g.index,
                                            key |-> g.key])
                       ELSE handed
  /\ UNCHANGED <<tasks, agents, pc, outcome, raised, browser, current, now, shutdown,
                 calls, reply, request, hook, cleaned, environ, shotVars>>

NextPool == \E r \in PoolRuns, ai_provider \in AiProviders : execute_task_get_llm(r, ai_provider)

SpecPool == InitPool /\ [][NextPool]_vars

\* --------------------------------------------- the pools at module load
\* what the two variables of one provider can hold
EnvSingles == {None, Some(<<>>), Some(<<"a">>), Some(<<" ">>), Some(<<" ", "b">>)}
EnvLists == {None} \cup {Some(str) : str \in EnvStrings}
OtherLists == {None, Some(<<"b", ",", "a">>)}
OtherSingles == {None, Some(<<"b">>)}

\* before llm_pool is imported there is no manager; the environment is whatever
\* the deployment sets
InitLoad ==
  /\ pools = <<>>
  /\ \E ks \in EnvLists, k \in EnvSingles, oks \in OtherLists, ok \in OtherSingles :
       environ = [p \in PoolProviders |->
                    IF p = "openai" THEN [keys |-> ks, key |-> k]
                    ELSE IF p = "google" THEN [keys |-> oks, key |-> ok]
                    ELSE [keys |-> None, key |-> None]]
  /\ run_key = [r \in PoolRuns |-> None]
  /\ handed = <<>>
  /\ media_dir = NoMedia
  /\ polls = <<>>
  /\ captured = NoCapture
  /\ tasks = <<>>
  /\ agents = [x \in {} |-> NewAgent]
  /\ pc = [t \in TaskIds |-> "absent"]
  /\ outcome = [t \in TaskIds |-> "none"]
  /\ raised = [t \in TaskIds |-> None]
  /\ browser = [t \in TaskIds |-> "none"]
  /\ current = 0
  /\ now = [t \in TaskIds |-> 0]
  /\ shutdown = FALSE
  /\ calls = <<>>
  /\ reply = NoReply
  /\ request = [t \in TaskIds |-> NoRequest]
  /\ hook = [t \in TaskIds |-> NoHook]
  /\ cleaned = [t \in TaskIds |-> {}]

\* `_llm_pool_manager = LLMPoolManager()`: one pool per supported provider,
\* each loaded from the environment, all in the one import-time statement
LLMPoolManager ==
  /\ pools = <<>>
  /\ pools' = [p \in PoolProviders |-> ProviderKeyPool(environ, p)]
  /\ UNCHANGED <<tasks, agents, pc, outcome, raised, browser, current, now, shutdown,
                 calls, reply, request, hook, cleaned, run_key, handed, environ, shotVars>>

NextLoad == LLMPoolManager

SpecLoad == InitLoad /\ [][NextLoad]_vars

\* ------------------------------------- the pipeline on its own inputs
\* byte lengths around the three regimes of the tolerance
\* (1 KB floor, 0.5 % of the larger, 10 KB cap)
ShotSizes == {5000, 6023, 6025, 300000, 301507, 301508, 3000000, 3010239, 3010241}
\* what take_screenshot can hand back
Shots ==
  {ByteData(PNG_SIGNATURE, n) : n \in ShotSizes}
    \cup {NoData, ByteData("", 0), ByteData(JPEG_HEAD, 5000),
          ScreenshotData("dict", FALSE, FALSE, FALSE, "", 1),
          TextData(FALSE, FALSE, TRUE, PNG_SIGNATURE, 8000),
          TextData(TRUE, TRUE, TRUE, PNG_SIGNATURE, 400000),
          TextData(TRUE, TRUE, TRUE, JPEG_HEAD, 8000),
          TextData(TRUE, TRUE, TRUE, "", 0),
          TextData(TRUE, FALSE, TRUE, PNG_SIGNATURE, 8000),
          TextData(FALSE, FALSE, FALSE, PNG_SIGNATURE, 8001)}
\* take_screenshot returns data or raises
Taken == [raises : {FALSE}, data : Shots] \cup {[raises |-> TRUE, data |-> NoData]}

\* one stored Task in any status, with the steps polls have recorded, its agent
\* registered and its browser session open
InitCapture ==
  /\ \E s \in TaskStatus, n \in 0..MaxSteps :
       /\ s = CREATED => n = 0
       /\ tasks = <<[task_data(DEFAULT_USER_ID, NoRequest) EXCEPT
                       !.status = s,
                       !.steps = [i \in 1..n |-> i],
                       !.finished_at = IF s \in Terminal THEN Some(0) ELSE None,
                       !.output = IF s = FINISHED THEN Some("answer") ELSE None,
                       !.error = IF s = FAILED THEN Some("boom") ELSE None]>>
  /\ agents = [x \in {1} |-> NewAgent]
  /\ pc = [t \in TaskIds |-> "absent"]
  /\ outcome = [t \in TaskIds |-> "none"]
  /\ raised = [t \in TaskIds |-> None]
  /\ browser = [t \in TaskIds |-> IF t = 1 THEN "open" ELSE "none"]
  /\ current = 0
  /\ now = [t \in TaskIds |-> 0]
  /\ shutdown = FALSE
  /\ calls = <<>>
  /\ reply = NoReply
  /\ request = [t \in TaskIds |-> NoRequest]
  /\ hook = [t \in TaskIds |-> NoHook]
  /\ cleaned = [t \in TaskIds |-> {}]
  /\ pools = NoKeys
  /\ run_key = [r \in PoolRuns |-> None]
  /\ handed = <<>>
  /\ environ = NoEnv
  /\ media_dir = NoMedia
  /\ polls = <<>>
  /\ captured = NoCapture

\* one run of an entry point on a Task whose session is there: take_screenshot
\* returns or raises, the write may fail; the run reads the second the previous
\* run read (the timestamp of the filename is %Y%m%d-%H%M%S) or a later one
screenshot_entry(entry, t, taken, write_ok, tick) ==
  /\ t \in DOMAIN tasks /\ t \in DOMAIN agents /\ browser[t] = "open"
  /\ tick => now[t] < MaxShots
  /\ Len(tasks[t].media) < MaxShots
  /\ LET timestamp == IF tick THEN now[t] + 1 ELSE now[t]
         r == save_capture(entry, tasks, media_dir[t], taken.data, t, tasks[t].owner,
                           timestamp, write_ok)
     IN /\ now' = [now EXCEPT ![t] = timestamp]
        /\ IF taken.raises
             THEN /\ captured' = Capture(entry, t, None, FALSE, FALSE, None)
                  /\ UNCHANGED <<tasks, media_dir>>
             ELSE /\ tasks' = r.tasks
                  /\ media_dir' = [media_dir EXCEPT ![t] = r.files]
                  /\ captured' = r.log
  /\ UNCHANGED <<agents, pc, outcome, raised, browser, current, shutdown, calls, reply,
                 request, hook, cleaned, poolVars, environ, polls>>

\* automated_screenshot(agent, task_id, user_id, task_storage)
automated_screenshot(t, taken, write_ok, tick) ==
  screenshot_entry("automated_screenshot", t, taken, write_ok, tick)

\* capture_screenshot(agent, task_id, user_id, task_storage)
capture_screenshot(t, taken, write_ok, tick) ==
  screenshot_entry("capture_screenshot", t, taken, write_ok, tick)

NextCapture ==
  \/ \E t \in TaskIds, taken \in Taken, write_ok \in BOOLEAN, tick \in BOOLEAN :
       automated_screenshot(t, taken, write_ok, tick)
  \/ \E t \in TaskIds, taken \in Taken, write_ok \in BOOLEAN, tick \in BOOLEAN :
       capture_screenshot(t, taken, write_ok, tick)

SpecCapture == InitCapture /\ [][NextCapture]_vars

\* ------------------------------------------- polls, captures and media
\* `if task["status"] == TaskStatus.RUNNING`, as a variant that always holds
appends_step_always(status) == TRUE

\* `if task["status"] == TaskStatus.RUNNING`: the poll records a step
appends_step(status) == status = RUNNING

\* variant of the poll's except clause that names AssertionError only
caught_by_poll_assertion_only(exc) == exc = "AssertionError"

\* `except (AssertionError, AttributeError)` around the capture of a poll
caught_by_poll(exc) == exc \in {"AssertionError", "AttributeError"}

\* `_ = agent.browser_session`: None has no such attribute; the agent's
\* property may assert
SessionAccess == {"session", "AssertionError"}
browser_session(agent, access) == IF agent = None THEN "AttributeError" ELSE access

\* TaskStatusResponse(status=task["status"], result=task.get("output"),
\* error=task.get("error")) of the task read when the poll began
TaskStatusResponse(task, t, u) ==
  [NoReply EXCEPT !.op = "get_task_status", !.task = t, !.user = u, !.code = 200,
                  !.status = task.status, !.result = task.output,
                  !.error = task.error]
\* no response yet: the handler is suspended
Pending(op, t, u) == [NoReply EXCEPT !.op = op, !.task = t, !.user = u]
\* an exception no handler catches is answered with 500
ServerError(op, t, u) ==
  [NoReply EXCEPT !.op = op, !.task = t, !.user = u, !.code = 500,
                  !.message = "Internal Server Error"]

\* GET /task/{id}/status up to its first suspension: the lookup, the step record
\* of a running Task, then capture_screenshot down to `await take_screenshot`;
\* a session that is None or reports it is not connected ends the capture there
\* (when is_connected itself raises, the screenshot is tried anyway)
get_task_status_begin(t, u, access, connected_raises) ==
  /\ Serving
  /\ LET task == get_task(tasks, t, u)
         agent == get_task_agent(agents, tasks, t, u)
         session == browser_session(agent, access)
     IN IF task = None
          THEN /\ reply' = NotFound("get_task_status", t, u)
               /\ UNCHANGED <<tasks, polls>>
          ELSE /\ appends_step(task[1].status) => Len(task[1].steps) < MaxSteps
               /\ tasks' = IF appends_step(task[1].status)
                             THEN add_task_step(tasks, t, step_info(task[1]), u)
                             ELSE tasks
               /\ IF session # "session"
                    THEN /\ reply' = IF caught_by_poll(session)
                                       THEN TaskStatusResponse(task[1], t, u)
                                       ELSE ServerError("get_task_status", t, u)
                         /\ UNCHANGED polls
                    ELSE IF browser[t] = "none" \/ (browser[t] # "open" /\ ~connected_raises)
                      THEN /\ reply' = TaskStatusResponse(task[1], t, u)
                           /\ UNCHANGED polls
                      ELSE /\ Len(polls) < MaxPending
                           /\ polls' = Append(polls,
                                          [task |-> t, user |-> u,
                                           response |-> TaskStatusResponse(task[1], t, u)])
                           /\ reply' = Pending("get_task_status", t, u)
  /\ calls' = <<>>
  /\ UNCHANGED <<agents, pc, outcome, raised, browser, current, now, shutdown>>
  /\ UNCHANGED <<request, hook, cleaned, poolVars, environ, media_dir, captured>>

\* the rest of the poll: take_screenshot returns or raises (it raises on a
\* session that is no longer open), the capture is decoded, deduplicated,
\* validated and saved under the Task as it is now, and the response built
\* from the task read at the beginning is sent
get_task_status_capture(taken, write_ok) ==
  /\ current = 0
  /\ polls # <<>>
  /\ LET p == Head(polls)
         t == p.task
         r == save_capture("capture_screenshot", tasks, media_dir[t], taken.data, t,
                           p.user, now[t], write_ok)
     IN /\ browser[t] # "open" => taken.raises
        /\ Len(tasks[t].media) < MaxShots
        /\ IF taken.raises
             THEN /\ captured' = Capture("capture_screenshot", t, None, FALSE, FALSE, None)
                  /\ UNCHANGED <<tasks, media_dir>>
             ELSE /\ tasks' = r.tasks
                  /\ media_dir' = [media_dir EXCEPT ![t] = r.files]
                  /\ captured' = r.log
        /\ reply' = p.response
  /\ polls' = Tail(polls)
  /\ calls' = <<>>
  /\ UNCHANGED <<agents, pc, outcome, raised, browser, current, now, shutdown>>
  /\ UNCHANGED <<request, hook, cleaned, poolVars, environ>>

\* GET /task/{id}: the whole record
get_task_details(t, u) ==
  /\ Serving
  /\ LET task == get_task(tasks, t, u)
     IN reply' = IF task = None
                   THEN NotFound("get_task", t, u)
                   ELSE [NoReply EXCEPT !.op = "get_task", !.task = t, !.user = u,
                           !.code = 200, !.status = task[1].status,
                           !.result = task[1].output, !.error = task[1].error,
                           !.media = task[1].media]
  /\ calls' = <<>>
  /\ UNCHANGED <<tasks, agents, pc, outcome, raised, browser, current, now, shutdown>>
  /\ UNCHANGED <<request, hook, cleaned, poolVars, environ, shotVars>>

\* the media_type query parameter: absent, or a type to filter by; every file
\* here is a .png, a screenshot
MediaTypes == {None, Some("recording")}
file_type(filename) == "screenshot"
\* `[item for item in media_list if item.get("type") == media_type]`
of_type(items, media_type) ==
  IF media_type = None THEN items
  ELSE SelectSeq(items, LAMBDA item : item.type = media_type[1])

\* entries for the image files of a directory, made when the Task has none
RECURSIVE backfill_media(_, _, _, _)
backfill_media(st, files, t, u) ==
  IF files = <<>> THEN st
  ELSE backfill_media(
         add_task_media(st, t, [url |-> media_url(t, Head(files).filename),
                                type |-> "screenshot",
                                filename |-> Head(files).filename,
                                created_at |-> 0], u),
         Tail(files), t, u)

\* GET /task/{id}/media: 404 under the wrong owner, 400 before the Task is
\* terminal, else the urls of the Task's media entries
get_task_media(t, u, media_type) ==
  /\ Serving
  /\ LET task == get_task(tasks, t, u)
     IN IF task = None
          THEN /\ reply' = NotFound("get_task_media", t, u)
               /\ UNCHANGED tasks
          ELSE IF task[1].status \notin {FINISHED, FAILED, STOPPED}
            THEN /\ reply' = [NoReply EXCEPT !.op = "get_task_media", !.task = t,
                                !.user = u, !.code = 400,
                                !.message = "Media only available for completed tasks"]
                 /\ UNCHANGED tasks
            ELSE LET st == IF media_dir[t] # <<>> /\ task[1].media = <<>>
                             THEN backfill_media(tasks, media_dir[t], t, u)
                             ELSE tasks
                     media_list == of_type(st[t].media, media_type)
                 IN /\ tasks' = st
                    /\ reply' = [NoReply EXCEPT !.op = "get_task_media", !.task = t,
                                   !.user = u, !.code = 200,
                                   !.media = [i \in 1..Len(media_list) |->
                                                media_list[i].url]]
  /\ calls' = <<>>
  /\ UNCHANGED <<agents, pc, outcome, raised, browser, current, now, shutdown>>
  /\ UNCHANGED <<request, hook, cleaned, poolVars, environ, shotVars>>

\* GET /task/{id}/media/list: 404 under the wrong owner, else what is in the
\* Task's directory, whatever the Task's status
list_task_media(t, u, media_type) ==
  /\ Serving
  /\ reply' =
       IF ~task_exists(tasks, t, u) THEN NotFound("list_task_media", t, u)
       ELSE IF media_dir[t] = <<>>
         THEN [NoReply EXCEPT !.op = "list_task_media", !.task = t, !.user = u,
                 !.code = 200, !.message = "No media found for task"]
       ELSE LET media_info == [i \in 1..Len(media_dir[t]) |->
                                 [filename |-> media_dir[t][i].filename,
                                  type |-> file_type(media_dir[t][i].filename),
                                  size_bytes |-> media_dir[t][i].size,
                                  url |-> media_url(t, media_dir[t][i].filename)]]
            IN [NoReply EXCEPT !.op = "list_task_media", !.task = t, !.user = u,
                  !.code = 200, !.media = of_type(media_info, media_type)]
  /\ calls' = <<>>
  /\ UNCHANGED <<tasks, agents, pc, outcome, raised, browser, current, now, shutdown>>
  /\ UNCHANGED <<request, hook, cleaned, poolVars, environ, shotVars>>

\* the names a client can ask for: those written, and one that is not there
Filenames(t) == {media_dir[t][i].filename : i \in 1..Len(media_dir[t])} \cup {"none.png"}

\* GET /media/{task_id}/{filename}: the route takes no user id (u is only who
\* sends the request) and reads neither the store nor the status; it answers
\* 404 when the file is not there and sends the file otherwise
get_media_file(t, filename, u) ==
  /\ Serving
  /\ LET found == SelectSeq(media_dir[t], LAMBDA f : f.filename = filename)
     IN reply' = IF found = <<>>
                   THEN [NoReply EXCEPT !.op = "get_media_file", !.task = t,
                           !.user = u, !.code = 404,
                           !.message = "Media file not found"]
                   ELSE [NoReply EXCEPT !.op = "get_media_file", !.task = t,
                           !.user = u, !.code = 200, !.media = found]
  /\ calls' = <<>>
  /\ UNCHANGED <<tasks, agents, pc, outcome, raised, browser, current, now, shutdown>>
  /\ UNCHANGED <<request, hook, cleaned, poolVars, environ, shotVars>>

\* what a session returns to a poll
PollShots == {ByteData(PNG_SIGNATURE, 5000), ByteData(JPEG_HEAD, 5000), NoData}
PollTaken == [raises : {FALSE}, data : PollShots] \cup {[raises |-> TRUE, data |-> NoData]}

\* Runs of the default owner without webhook or cookie collection, polled and
\* read by both users while they run
NextMedia ==
  \/ run_task(DEFAULT_USER_ID, NoRequest)
  \/ \E t \in DOMAIN tasks : execute_task_start(t)
  \/ \E t \in DOMAIN tasks : execute_task_setup(t)
  \/ \E t \in DOMAIN tasks, stage \in {"llm", "agent"} :
       execute_task_setup_raises(t, stage, "boom", FALSE)
  \/ \E t \in DOMAIN tasks : agent_run_returns(t, Some("answer"), FALSE)
  \/ \E t \in DOMAIN tasks : agent_run_raises(t, "boom", FALSE)
  \/ \E t \in DOMAIN tasks : cleanup_task_stop(t, FALSE)
  \/ \E t \in DOMAIN tasks, close_raises \in BOOLEAN : cleanup_task_remove(t, close_raises)
  \/ \E t \in TaskIds, u \in Users : stop_task(t, u)
  \/ \E t \in TaskIds, u \in Users : pause_task(t, u)
  \/ \E t \in TaskIds, u \in Users : resume_task(t, u)
  \/ \E t \in TaskIds, u \in Users, access \in SessionAccess, connected_raises \in BOOLEAN :
       get_task_status_begin(t, u, access, connected_raises)
  \/ \E taken \in PollTaken : get_task_status_capture(taken, TRUE)
  \/ \E t \in TaskIds, u \in Users : get_task_details(t, u)
  \/ \E t \in TaskIds, u \in Users, media_type \in MediaTypes :
       get_task_media(t, u, media_type)
  \/ \E t \in TaskIds, u \in Users, media_type \in MediaTypes :
       list_task_media(t, u, media_type)
  \/ \E t \in TaskIds, u \in Users :
       \E filename \in Filenames(t) : get_media_file(t, filename, u)

SpecMedia == Init /\ [][NextMedia]_vars

\* ------------------------------------------- shutdown with several Tasks
SweptIds == 1..MaxSwept
\* what a stored Task and its handle can look like when the service stops: a
\* created Task has no agent yet, a paused or stopping one was given its status
\* through its agent, a terminal one has finished_at
SweptShapes ==
  {sh \in [owner : Users, status : TaskStatus, agent : BOOLEAN] :
     /\ sh.status = CREATED => ~sh.agent
     /\ sh.status \in {PAUSED, STOPPING} => sh.agent}
swept_task(sh) ==
  [task_data(sh.owner, NoRequest) EXCEPT
     !.status = sh.status,
     !.finished_at = IF sh.status \in Terminal THEN Some(0) ELSE None,
     !.output = IF sh.status = FINISHED THEN Some("answer") ELSE None,
     !.error = IF sh.status = FAILED THEN Some("boom") ELSE None]

InitSweep ==
  /\ \E shapes \in [SweptIds -> SweptShapes] :
       /\ tasks = [t \in SweptIds |-> swept_task(shapes[t])]
       /\ agents = [t \in {x \in SweptIds : shapes[x].agent} |->
                     [stopped |-> shapes[t].status \in {STOPPING, STOPPED},
                      paused |-> shapes[t].status = PAUSED]]
       /\ browser = [t \in SweptIds |-> IF shapes[t].agent THEN "open" ELSE "none"]
  /\ pc = [t \in SweptIds |-> "absent"]
  /\ outcome = [t \in SweptIds |-> "none"]
  /\ raised = [t \in SweptIds |-> None]
  /\ current = 0
  /\ now = [t \in SweptIds |-> 0]
  /\ shutdown = FALSE
  /\ calls = <<>>
  /\ reply = NoReply
  /\ request = [t \in SweptIds |-> NoRequest]
  /\ hook = [t \in SweptIds |-> NoHook]
  /\ cleaned = [t \in SweptIds |-> {}]
  /\ pools = NoKeys
  /\ run_key = [r \in PoolRuns |-> None]
  /\ handed = <<>>
  /\ environ = NoEnv
  /\ media_dir = [t \in SweptIds |-> <<>>]
  /\ polls = <<>>
  /\ captured = NoCapture

NextSweep ==
  \E stop_raises \in SUBSET SweptIds, update_raises \in SUBSET SweptIds :
    cleanup_all_tasks(stop_raises, update_raises)

SpecSweep == InitSweep /\ [][NextSweep]_vars

\* ================================================================= claims
status_of(t) == tasks[t].status
IsTerminal(t) == tasks[t].status \in Terminal
\* the Run of t ended its agent/set-up phase by returning / by raising
RunReturned(t) == outcome[t] = "returned"
RunRaised(t) == outcome[t] = "raised"

\* C1: in every reachable state, finished_at is non-null exactly when the
\* Task's status is finished, failed or stopped.
C1_FinishedAtIffTerminal ==
  \A t \in DOMAIN tasks : (tasks[t].finished_at # None) <=> IsTerminal(t)

\* C2: once a Task's status is terminal, neither the status nor finished_at
\* changes again (one terminal transition, finished_at set once).
C2_TerminalIsFinal ==
  [][\A t \in DOMAIN tasks :
       IsTerminal(t) => /\ tasks'[t].status = tasks[t].status
                        /\ tasks'[t].finished_at = tasks[t].finished_at]_vars

SpecifiedTransition(from, to, byShutdown) ==
  \/ <<from, to>> \in { <<CREATED, RUNNING>>, <<RUNNING, FINISHED>>,
                        <<RUNNING, FAILED>>, <<RUNNING, STOPPING>>,
                        <<STOPPING, STOPPED>>, <<RUNNING, STOPPED>>,
                        <<RUNNING, PAUSED>>, <<PAUSED, RUNNING>> }
  \/ byShutdown /\ from \notin Terminal /\ to = STOPPED

\* C4: every change of a Task's status is a transition of the specified state
\* machine.
C4_OnlySpecifiedTransitions ==
  [][\A t \in DOMAIN tasks :
       tasks'[t].status # tasks[t].status =>
         SpecifiedTransition(tasks[t].status, tasks'[t].status,
                             ~shutdown /\ shutdown')]_vars

\* C5: a Task that Stop moved to stopping (the registered agent was signalled)
\* has status stopped once its agent's run call has returned.
C5_StoppingEndsStopped ==
  \A t \in DOMAIN tasks :
    (RunReturned(t) /\ pc[t] = "cleanup" /\ t \in DOMAIN agents /\ agents[t].stopped)
      => tasks[t].status = STOPPED

\* a step of handler op on task t made by the task's owner
HandlerStep(op, t) ==
  /\ t \in DOMAIN tasks
  /\ reply'.op = op /\ reply'.task = t /\ reply'.user = tasks[t].owner

\* C6: Stop on a non-terminal Task: with a registered agent handle the agent is
\* signalled, the status becomes stopping and finished_at is left null; without
\* one the status becomes stopped, finished_at is set and no agent is called.
C6_StopNonTerminal ==
  [][\A t \in TaskIds :
       (HandlerStep("stop_task", t) /\ ~IsTerminal(t)) =>
         IF t \in DOMAIN agents
           THEN /\ calls' = << <<t, "stop">> >>
                /\ agents'[t].stopped
                /\ tasks'[t].status = STOPPING
                /\ tasks'[t].finished_at = tasks[t].finished_at
                /\ reply'.code = 200
           ELSE /\ calls' = <<>>
                /\ agents' = agents
                /\ tasks'[t].status = STOPPED
                /\ tasks'[t].finished_at # None
                /\ reply'.code = 200]_vars

C6_Witness ==
  \E t \in DOMAIN tasks :
    /\ reply.op = "stop_task" /\ reply.task = t /\ reply.message = "Task stopping"
    /\ tasks[t].status = STOPPING /\ tasks[t].finished_at = None
    /\ calls = << <<t, "stop">> >>

\* C7: Stop on a finished, failed or stopped Task changes nothing of the Task,
\* signals no agent even if a handle is still registered, and reports that the
\* Task is already terminal.
C7_StopTerminalIsNoop ==
  [][\A t \in TaskIds :
       (HandlerStep("stop_task", t) /\ IsTerminal(t)) =>
         /\ tasks' = tasks
         /\ agents' = agents
         /\ calls' = <<>>
         /\ reply'.code = 200
         /\ reply'.message = "Task already in terminal state"
         /\ reply'.status = tasks[t].status]_vars

C7_Witness ==
  \E t \in DOMAIN tasks :
    /\ reply.op = "stop_task" /\ reply.task = t
    /\ reply.message = "Task already in terminal state"
    /\ tasks[t].status = FAILED
    /\ t \in DOMAIN agents

\* C8: Pause on a Task that is not running, and Resume on a Task that is not
\* paused, change no status, call no agent, and answer with a message (200),
\* not an error.
C8_PauseResumeMismatch ==
  [][\A t \in TaskIds :
       /\ (HandlerStep("pause_task", t) /\ tasks[t].status # RUNNING) =>
            /\ tasks' = tasks /\ agents' = agents /\ calls' = <<>>
            /\ reply'.code = 200
            /\ reply'.message = "Task status is not the expected one"
       /\ (HandlerStep("resume_task", t) /\ tasks[t].status # PAUSED) =>
            /\ tasks' = tasks /\ agents' = agents /\ calls' = <<>>
            /\ reply'.code = 200
            /\ reply'.message = "Task status is not the expected one"]_vars

C8_Witness ==
  \E t \in DOMAIN tasks :
    /\ reply.op = "resume_task" /\ reply.task = t /\ reply.user = tasks[t].owner
    /\ reply.message = "Task status is not the expected one"
    /\ tasks[t].status = STOPPING
    /\ t \in DOMAIN agents

\* C9: when set-up or the agent's run raised, the Task is failed, its error is
\* the text of the exception, its output is null, and the Run went on to its
\* cleanup instead of ending with the exception.
C9_RaiseRecordsFailure ==
  \A t \in DOMAIN tasks :
    raised[t] # None =>
      /\ tasks[t].status = FAILED
      /\ tasks[t].error = raised[t]
      /\ tasks[t].output = None
      /\ pc[t] \in {"cleanup", "closing", "done"}

C9_Witness ==
  \E t \in DOMAIN tasks :
    raised[t] = Some("boom") /\ tasks[t].error = Some("boom") /\ pc[t] = "done"

\* C10: a Poll of a Task whose Run raised reports status failed with a
\* non-empty error and a null output.
C10_PollReportsFailure ==
  \A t \in DOMAIN tasks :
    (reply.op = "get_task_status" /\ reply.task = t /\ reply.code = 200
       /\ RunRaised(t)) =>
      /\ reply.status = FAILED
      /\ reply.error # None /\ reply.error # Some("")
      /\ reply.result = None

\* positions of the Run before its cleanup
RunBody == {"setup", "agent_run", "cookies", "webhook"}
\* x is one of the entries of the sequence s
InSeq(x, s) == \E i \in DOMAIN s : s[i] = x

Delivered(t, e) == hook[t].payload # None /\ hook[t].payload[1].event = e

\* C14: once the Run of a Task submitted with a webhook URL has reached its
\* cleanup, it has invoked delivery of task.completed exactly if it returned
\* and the request subscribed task.completed, and delivery of task.failed
\* exactly if it raised and the request subscribed task.failed.
C14_WebhookIffSubscribed ==
  \A t \in DOMAIN tasks :
    (request[t].webhook_url # None /\ pc[t] \in {"cleanup", "closing", "done"}) =>
      /\ RunReturned(t) =>
           (Delivered(t, "task.completed") <=> "task.completed" \in request[t].webhook_events)
      /\ RunRaised(t) =>
           (Delivered(t, "task.failed") <=> "task.failed" \in request[t].webhook_events)

\* the call of trigger_webhook, as SpecWebhook starts it for task id 1
deliver == hook[1]
\* number of POSTs made so far, and of those not answered 2xx
Attempts(h) == Len(h.responses)
Failures(h) == Cardinality({i \in DOMAIN h.responses : ~h.responses[i]})

\* C15: a delivery that returned True made k <= 3 attempts, the first k-1 not
\* answered 2xx and the k-th answered 2xx, and slept 2^(i-1) seconds after
\* failed attempt i and not after the success; and once it has returned no
\* further attempt is made.
C15_SuccessAfterKAttempts ==
  [][/\ deliver'.returned = Some(TRUE) =>
          LET k == Attempts(deliver')
          IN /\ k \in 1..max_retries
             /\ \A i \in 1..k : deliver'.responses[i] <=> (i = k)
             /\ deliver'.sleeps = [i \in 1..(k - 1) |-> 2 ^ (i - 1)]
     /\ deliver.returned # None => deliver' = deliver]_vars

\* two attempts failed, the third was answered 2xx: True after 1s and 2s
C15_Witness ==
  /\ deliver.returned = Some(TRUE)
  /\ deliver.responses = <<FALSE, FALSE, TRUE>>
  /\ deliver.sleeps = <<1, 2>>

C17_PayloadOneOfResultError ==
  deliver.payload # None =>
    LET p == deliver.payload[1]
    IN /\ p.event \in WebhookEvents /\ p.task_id = 1
       /\ p.status \in HookStatuses /\ p.timestamp \in HookTimes
       /\ (p.result # None) # (p.error # None)

\* the acquisitions from the pool of provider p, in order, and its size
\* the providers get_llm builds a client for without a pooled key
Unpooled == {"ollama", "azure", "bedrock"}
Acq(p) == SelectSeq(handed, LAMBDA e : e.provider = p)
PoolSize(p) == Len(pools[p].keys)
\* how many of the acquisitions from p returned the entry at index j
TimesReturned(p, j) == Cardinality({i \in DOMAIN Acq(p) : Acq(p)[i].index = j})

\* C18: for a pool of K >= 1 keys the i-th call returns the key at index
\* (i-1) mod K of the configured list, so after N calls each key has been
\* returned floor(N/K) or floor(N/K)+1 times, the latter only if K does not
\* divide N.
C18_RoundRobinOrder ==
  \A p \in PoolProviders :
    PoolSize(p) >= 1 =>
      LET K == PoolSize(p)
          N == Len(Acq(p))
      IN /\ \A i \in 1..N :
              /\ Acq(p)[i].index = (i - 1) % K
              /\ Acq(p)[i].key = Some(pools[p].keys[((i - 1) % K) + 1])
         /\ \A j \in 0..(K - 1) :
              \/ TimesReturned(p, j) = N \div K
              \/ N % K # 0 /\ TimesReturned(p, j) = (N \div K) + 1

\* three calls on a pool of two keys: first, second, first again
C18_Witness ==
  \E p \in PoolProviders :
    /\ PoolSize(p) = 2
    /\ Len(Acq(p)) = 3
    /\ Acq(p)[3].key = Some(Key(1))

\* C19: a pool without keys answers every call with no key and its cursor
\* stays at 0.
C19_EmptyPoolReturnsNone ==
  \A p \in PoolProviders :
    PoolSize(p) = 0 =>
      /\ pools[p].current_index = 0
      /\ \A i \in DOMAIN Acq(p) : Acq(p)[i].key = None
      /\ \A r \in PoolRuns :
           (run_key[r] # None /\ run_key[r][1].provider = p) => run_key[r][1].key = None

\* every Run asked the empty pool of one provider and each got no key
C19_Witness ==
  \E p \in PoolProviders :
    /\ PoolSize(p) = 0
    /\ Len(Acq(p)) = MaxRuns
    /\ \A r \in PoolRuns : run_key[r] = Some([provider |-> p, key |-> None])

\* C20: however the starting Runs interleave, each acquisition from a pool of
\* K keys returns the entry after the one returned before it (cyclically), so
\* any K consecutive acquisitions return K different entries, all of the pool;
\* and every Run that takes a pooled key holds what one of the acquisitions
\* returned.
C20_AtomicFetchAndAdvance ==
  \A p \in PoolProviders :
    PoolSize(p) >= 1 =>
      LET K == PoolSize(p)
          N == Len(Acq(p))
      IN /\ \A i \in 1..(N - 1) : Acq(p)[i + 1].index = (Acq(p)[i].index + 1) % K
         /\ \A a \in 1..(N - K + 1) :
              {Acq(p)[i].index : i \in a..(a + K - 1)} = 0..(K - 1)
         /\ \A r \in PoolRuns :
              (run_key[r] # None /\ run_key[r][1].provider = p /\ p \notin Unpooled) =>
                \E i \in 1..N : Acq(p)[i].key = run_key[r][1].key

\* all Runs started for the same provider with two keys: the three of them
\* hold key 1, key 2 and key 1 again in some order of arrival
C20_Witness ==
  /\ PoolSize("google") = 2
  /\ \A r \in PoolRuns : run_key[r] # None /\ run_key[r][1].provider = "google"
  /\ run_key[2] = Some([provider |-> "google", key |-> Some(Key(1))])
  /\ run_key[1] = Some([provider |-> "google", key |-> Some(Key(2))])
  /\ run_key[3] = Some([provider |-> "google", key |-> Some(Key(1))])


\* the entries of a comma-separated value: the text between the commas
Entries(str) == split(str, ",")
\* an entry is blank when it holds nothing but spaces
Blank(str) == \A i \in 1..Len(str) : str[i] = " "
\* a variable offers a credential when it is set to a non-empty value
Present(v) == v # None /\ v[1] # <<>>
\* the non-blank entries of a set variable, in order, each without the spaces
\* around it
NonBlankEntries(v) ==
  IF v = None THEN <<>>
  ELSE LET kept == SelectSeq(Entries(v[1]), LAMBDA e : ~Blank(e))
       IN [i \in 1..Len(kept) |-> strip(kept[i])]
Loaded == pools # <<>>

\* C21: once the pools are built, each provider's pool holds the non-blank
\* entries of its list variable, in order, when there is at least one; otherwise
\* exactly the single-key variable when that is present; otherwise nothing;
\* every environment gets its pools built, with the cursor at the start
C21_PoolLoadedFromEnvironment ==
  Loaded =>
    \A p \in PoolProviders :
      /\ pools[p].current_index = 0
      /\ IF NonBlankEntries(environ[p].keys) # <<>>
           THEN pools[p].keys = NonBlankEntries(environ[p].keys)
           ELSE IF Present(environ[p].key)
                  THEN pools[p].keys = <<environ[p].key[1]>>
                  ELSE pools[p].keys = <<>>
\* the list variable is set but holds only blanks and commas, and the pool
\* fell back to the single key
C21_Witness ==
  /\ Loaded
  /\ environ["openai"].keys = Some(<<" ", ",", ",", " ">>)
  /\ environ["openai"].key = Some(<<" ", "b">>)
  /\ pools["openai"].keys = << <<" ", "b">> >>
  /\ pools["google"].keys = << <<"b">>, <<"a">> >>

\* the claim's tolerance T = max(1024, min(10240, 0.005 * max(c, e))), compared
\* in whole numbers: d < T and d > T for d = |c - e|
Distance(c, e) == IF c >= e THEN c - e ELSE e - c
Larger(c, e) == IF c >= e THEN c ELSE e
Within(c, e) ==
  \/ Distance(c, e) < 1024
  \/ Distance(c, e) < 10240 /\ 200 * Distance(c, e) < Larger(c, e)
Beyond(c, e) ==
  /\ Distance(c, e) > 1024
  /\ Distance(c, e) > 10240 \/ 200 * Distance(c, e) > Larger(c, e)
\* the files and the media entries of the Task the latest run was about
FilesOf(t) == media_dir[t]
FileSizes(files) == {files[i].size : i \in 1..Len(files)}
LastEntry(t) == tasks[t].media[Len(tasks[t].media)]
\* the run decoded a capture to some bytes
Decoded(c) == c.image # None /\ c.image[1].size > 0
ValidPng(c) == Decoded(c) /\ c.image[1].head = PNG_SIGNATURE

C23_NonPngRejected ==
  [][\A t \in DOMAIN tasks :
       ( /\ captured'.task = t
         /\ captured'.entry \in {"automated_screenshot", "capture_screenshot"}
         /\ Decoded(captured') /\ ~ValidPng(captured') ) =>
         /\ media_dir' = media_dir
         /\ tasks' = tasks
         /\ captured'.url = None]_vars
\* base64 text that decodes to 6000 bytes of JPEG, not a duplicate of anything,
\* came in through the automated entry point and left nothing behind
C23_Witness ==
  /\ captured.entry = "automated_screenshot"
  /\ captured.image = Some(Bytes(JPEG_HEAD, 6000))
  /\ ~captured.duplicate /\ captured.url = None
  /\ media_dir[1] = <<>> /\ tasks[1].media = <<>>

\* the name the claim expects for an artifact saved at `timestamp`
ExpectedName(task, timestamp) ==
  IF task.status = FINISHED THEN "final-" \o ToString(timestamp) \o ".png"
  ELSE IF task.status = RUNNING
    THEN "status-step-" \o ToString(task.steps[Len(task.steps)]) \o "-"
           \o ToString(timestamp) \o ".png"
  ELSE "status-" \o task.status \o "-" \o ToString(timestamp) \o ".png"

\* C25: a saved artifact is named final-<timestamp> for a finished Task,
\* status-step-<n>-<timestamp> for a running one, n being the number of its
\* last recorded step, and status-<status>-<timestamp> otherwise
C25_FilenameFollowsStatus ==
  \A t \in DOMAIN tasks :
    ( /\ captured.task = t /\ captured.url # None
      /\ tasks[t].status = RUNNING => tasks[t].steps # <<>> ) =>
      LastEntry(t).filename = ExpectedName(tasks[t], LastEntry(t).created_at)

\* a step of a status poll about task t: its beginning, or the completion of
\* its suspended capture
PollBegins(t) ==
  reply'.op = "get_task_status" /\ reply'.task = t /\ Len(polls') >= Len(polls)
PollCaptures(t) ==
  Len(polls') < Len(polls) /\ Head(polls).task = t
\* the session the poll holds can take no screenshot
SessionUnavailable(t) == browser[t] # "open"
\* what a Run is and has: its position, its exception, its agent, its session
RunState == <<pc, outcome, raised, agents, browser, current, cleaned>>

Prepared == IF reply'.code = 0 THEN polls'[Len(polls')].response ELSE reply'

\* C26: the beginning of a poll by the Task's owner appends one step record
\* when the Task is running and none otherwise; neither it nor the completion
\* of the capture changes status, output, error or finished_at; the response
\* carries the Task's status, output and error
C26_PollAppendsOneStep ==
  [][\A t \in DOMAIN tasks :
       /\ (PollBegins(t) /\ reply'.user = tasks[t].owner) =>
            /\ IF tasks[t].status = RUNNING
                 THEN tasks'[t].steps = Append(tasks[t].steps, Len(tasks[t].steps) + 1)
                 ELSE tasks'[t].steps = tasks[t].steps
            /\ Prepared.code = 200
            /\ Prepared.status = tasks[t].status
            /\ Prepared.result = tasks[t].output
            /\ Prepared.error = tasks[t].error
       /\ PollCaptures(t) => tasks'[t].steps = tasks[t].steps
       /\ (PollBegins(t) \/ PollCaptures(t)) =>
            /\ tasks'[t].status = tasks[t].status
            /\ tasks'[t].output = tasks[t].output
            /\ tasks'[t].error = tasks[t].error
            /\ tasks'[t].finished_at = tasks[t].finished_at]_vars
\* two polls of a running Task left two step records, and a poll of the
\* finished Task then left none and answered with its output
C26_Witness ==
  \E t \in DOMAIN tasks :
    /\ reply.op = "get_task_status" /\ reply.code = 200
    /\ reply.status = FINISHED /\ reply.result = Some("answer")
    /\ tasks[t].steps = <<1, 2>>
    /\ tasks[t].status = FINISHED

\* the operations that look a Task up for a caller
OwnerScoped == {"get_task_status", "get_task", "stop_task", "pause_task",
                "resume_task", "get_task_media", "list_task_media",
                "get_media_file"}
\* what each of them answers for a task id nobody has
UnknownTask(op, t, u) ==
  IF op = "get_media_file"
    THEN [NoReply EXCEPT !.op = op, !.task = t, !.user = u, !.code = 404,
                         !.message = "Media file not found"]
    ELSE NotFound(op, t, u)

\* C29: a request about a Task by a caller who is not its owner is answered as
\* a request about an unknown task id, and changes nothing of the Task, its
\* agent or its files
C29_OwnerIsolation ==
  [][\A t \in DOMAIN tasks :
       (reply'.op \in OwnerScoped /\ reply'.task = t /\ reply'.user # tasks[t].owner) =>
         /\ reply' = UnknownTask(reply'.op, t, reply'.user)
         /\ tasks' = tasks /\ agents' = agents /\ media_dir' = media_dir
         /\ polls' = polls]_vars

\* the operations that list or serve a Task's artifacts
MediaOps == {"get_task_media", "list_task_media", "get_media_file"}

\* C30: a media operation asked of a Task that is created, running, paused or
\* stopping answers with an error and carries no artifact data
C30_MediaOnlyWhenTerminal ==
  [][\A t \in DOMAIN tasks :
       (reply'.op \in MediaOps /\ reply'.task = t /\ reply'.user = tasks[t].owner
          /\ tasks[t].status \notin Terminal) =>
         /\ reply'.code >= 400
         /\ reply'.media = <<>>]_vars

\* the step in which the lifespan runs the sweep
ShutdownStep == ~shutdown /\ shutdown'

\* C27: the sweep leaves every Task that was created, running, paused or
\* stopping, whoever owns it, stopped with finished_at set and without a
\* registered agent handle
C27_ShutdownStopsAllNonTerminal ==
  [][ShutdownStep =>
       \A t \in DOMAIN tasks :
         tasks[t].status \notin Terminal =>
           /\ tasks'[t].status = STOPPED
           /\ tasks'[t].finished_at # None
           /\ t \notin DOMAIN agents']_vars

\* the Tasks the sweep lists and transitions when nothing fails
Swept(t) == tasks[t].owner = DEFAULT_USER_ID /\ tasks[t].status \in {RUNNING, PAUSED}
\* the sweep's update of Task t raised
UpdateRaised(t) == InSeq(<<t, "update raised">>, calls')

\* C28: the sweep always returns, and whatever raised for one Task (its agent's
\* stop or its update), every other Task the sweep transitions is stopped with
\* finished_at set; so is the Task whose agent's stop raised
C28_ShutdownSkipsFailures ==
  [][ShutdownStep =>
       \A t \in DOMAIN tasks :
         (Swept(t) /\ ~UpdateRaised(t)) =>
           /\ tasks'[t].status = STOPPED
           /\ tasks'[t].finished_at # None
           /\ t \notin DOMAIN agents']_vars

\* the step in which Submit answers for Task t
SubmitStep(t) == reply'.op = "run_task" /\ reply'.task = t
\* a status poll of Task t by its owner
OwnerPoll(t) ==
  reply'.op = "get_task_status" /\ reply'.task = t /\ reply'.user = tasks[t].owner
\* the Run of Task t has executed nothing yet, or its first scheduling tick
\* only: it is suspended in agent.run(), or set-up raised before an agent
\* handle was registered and cleanup has not begun
FirstTick(t) ==
  \/ pc[t] \in {"scheduled", "agent_run"}
  \/ pc[t] = "cleanup" /\ t \notin DOMAIN agents /\ cleaned[t] = {}
\* Stop or Pause has written the Task's status since Submit
Interfered(t) == tasks[t].status \in {STOPPED, STOPPING, PAUSED}
\* Submit stores the Task as created, answers with identifier, status and live
\* reference, and leaves the Run scheduled with none of its steps executed
SubmitReturns(t) ==
  SubmitStep(t) =>
    /\ tasks' = Append(tasks, tasks'[t]) /\ t = Len(tasks')
    /\ tasks'[t].status = CREATED /\ tasks'[t].finished_at = None
    /\ reply'.code = 200 /\ reply'.status = CREATED
    /\ reply'.live_url = live_url(t)
    /\ pc[t] = "absent" /\ pc'[t] = "scheduled"
    /\ <<agents, outcome, raised, browser, current, now, hook, cleaned>>' =
         <<agents, outcome, raised, browser, current, now, hook, cleaned>>
\* a poll while the Run has executed at most its first scheduling tick, with no
\* Stop or Pause in between, reports created or running
PollAfterSubmit(t) ==
  (OwnerPoll(t) /\ FirstTick(t) /\ ~Interfered(t)) =>
    reply'.status \in {CREATED, RUNNING}

\* C31 (Submit alone): Submit stores the Task with status created and returns
\* identifier, status created and live reference without executing any step
\* of the Run
C31_SubmitDoesNotRun == [][\A t \in TaskIds : SubmitReturns(t)]_vars

\* C31: Submit stores the Task with status created and returns identifier,
\* status created and live reference without executing any step of the Run,
\* and a poll made right after Submit (the Run at most one scheduling tick
\* in) reports created or running, never a terminal status
C31_SubmitThenPoll ==
  [][/\ \A t \in TaskIds : SubmitReturns(t)
     /\ \A t \in DOMAIN tasks : PollAfterSubmit(t)]_vars

\* the step records of Task t are numbered 1, 2, ..., n
Numbered(t) == tasks[t].steps = [i \in 1..Len(tasks[t].steps) |-> i]
\* a step that changes the step records of Task t appends one record, numbered
\* after the last, to a Task that is running
StepAppended(t) ==
  tasks'[t].steps # tasks[t].steps =>
    /\ tasks[t].status = RUNNING
    /\ tasks'[t].steps = Append(tasks[t].steps, Len(tasks[t].steps) + 1)

\* C32: in every reachable state the step records of a Task are numbered
\* 1, 2, ..., n in order of insertion; no step removes or rewrites one; one is
\* appended only while the Task is running, also when a poll begins and
\* answers while the capture of another poll of the same Task is suspended
C32_StepsNumberedInOrder ==
  /\ [](\A t \in DOMAIN tasks : Numbered(t))
  /\ [][\A t \in DOMAIN tasks : StepAppended(t)]_vars
\* a second poll of a running Task appended step 2 and answered while the
\* capture of the first poll, which appended step 1, was still suspended
C32_Witness ==
  \E t \in DOMAIN tasks :
    /\ tasks[t].steps = <<1, 2>>
    /\ polls # <<>> /\ Head(polls).task = t
    /\ reply.op = "get_task_status" /\ reply.task = t /\ reply.code = 200
    /\ reply.status = RUNNING

\* where the Run of Task t has not reached set_task_agent yet
BeforeRegistration == {"absent", "scheduled", "setup"}
\* the handle is registered between the write of running and agent.run()
RegisteredInOrder(t) ==
  /\ pc[t] \in BeforeRegistration => t \notin DOMAIN agents
  /\ pc[t] = "setup" => tasks[t].status = RUNNING
  /\ (pc[t] = "agent_run" /\ ~shutdown) =>
       /\ t \in DOMAIN agents
       /\ tasks[t].status \notin Terminal
\* a Stop by the owner of Task t
OwnerStop(t) ==
  reply'.op = "stop_task" /\ reply'.task = t /\ reply'.user = tasks[t].owner

\* C33: the agent handle is registered after the status is set to running and
\* before agent.run() is invoked, so a Stop by the owner while agent.run() is
\* in progress finds the handle: it signals the agent and leaves the Task
\* stopping with no finished_at written, never stopped by the no-agent branch
C33_StopDuringRunFindsAgent ==
  /\ [](\A t \in DOMAIN tasks : RegisteredInOrder(t))
  /\ [][\A t \in DOMAIN tasks :
          (OwnerStop(t) /\ pc[t] = "agent_run") =>
            /\ calls' = << <<t, "stop">> >>
            /\ agents'[t].stopped
            /\ tasks'[t].status = STOPPING
            /\ tasks'[t].finished_at = tasks[t].finished_at
            /\ reply'.message = "Task stopping"]_vars
\* a Stop arrived while agent.run() was in progress: the agent is flagged, the
\* Task is stopping and the Run has not moved
C33_Witness ==
  \E t \in DOMAIN tasks :
    /\ reply.op = "stop_task" /\ reply.task = t /\ reply.message = "Task stopping"
    /\ pc[t] = "agent_run"
    /\ t \in DOMAIN agents /\ agents[t].stopped
    /\ tasks[t].status = STOPPING /\ tasks[t].finished_at = None

\* agent.run() of Task t has returned or raised and the Run is not over
AfterAgentRun(t) ==
  /\ t \in DOMAIN tasks
  /\ pc[t] \in {"cookies", "webhook", "cleanup", "closing"}
  /\ t \in DOMAIN agents \/ shutdown
\* the Run of Task t is over: terminal status, cleanup through its last step,
\* no handle left, no delivery in progress
RunOver(t) ==
  /\ pc[t] = "done"
  /\ tasks[t].status \in Terminal /\ tasks[t].finished_at # None
  /\ "remove" \in cleaned[t] /\ t \notin DOMAIN agents
  /\ hook[t].state # "sending"
  /\ Len(hook[t].responses) <= max_retries

MediaOf(t) == tasks[t].media
FileNamed(t, filename) ==
  {i \in 1..Len(media_dir[t]) : media_dir[t][i].filename = filename}
\* every media entry of Task t names one non-empty file of the Task, and no
\* two entries name the same file
EntryPerFile(t) ==
  /\ \A i \in 1..Len(MediaOf(t)) :
       \E j \in FileNamed(t, MediaOf(t)[i].filename) : media_dir[t][j].size > 0
  /\ \A i, j \in 1..Len(MediaOf(t)) :
       i # j => MediaOf(t)[i].filename # MediaOf(t)[j].filename
\* a step leaves the media entries of Task t as they are or appends one
EntriesKept(t) ==
  \/ MediaOf(t)' = MediaOf(t)
  \/ /\ Len(MediaOf(t)') = Len(MediaOf(t)) + 1
     /\ SubSeq(MediaOf(t)', 1, Len(MediaOf(t))) = MediaOf(t)

\* C35: every media entry of a Task names exactly one persisted, non-empty
\* file of that Task and no two entries share a filename; entries are only
\* appended, never changed or removed
C35_MediaEntryPerFile ==
  /\ [](\A t \in DOMAIN tasks : EntryPerFile(t))
  /\ [][\A t \in DOMAIN tasks : EntriesKept(t)]_vars

Resolves(r) == run_key[r] = None /\ run_key'[r] # None
\* the step made a next() call, on the pool of provider p
NextCall(p) ==
  /\ Len(handed') = Len(handed) + 1
  /\ handed'[Len(handed')].provider = p

\* C36: a next() call changes nothing but the cursor of the pool it is made
\* on: every pool keeps its keys and every other pool its cursor; and a Run
\* for ollama, azure or bedrock makes no next() call and moves no cursor,
\* whatever keys those pools hold
C36_NextTouchesOnePool ==
  [][/\ \A q \in PoolProviders : pools'[q].keys = pools[q].keys
     /\ \A p \in PoolProviders \cup AiProviders :
          NextCall(p) =>
            \A q \in PoolProviders \ {p} : pools'[q] = pools[q]
     /\ \A r \in PoolRuns :
          (Resolves(r) /\ run_key'[r][1].provider \in Unpooled) =>
            /\ pools' = pools
            /\ handed' = handed
            /\ run_key'[r][1].key = None]_vars
\* a Run for ollama, whose pool holds two keys, got no key and left that
\* cursor at 0; a Run for openai moved the cursor of the openai pool and left
\* the cursor of the google pool, which holds keys too, at 0
C36_Witness ==
  /\ PoolSize("ollama") = 2 /\ pools["ollama"].current_index = 0
  /\ PoolSize("openai") = 2 /\ pools["openai"].current_index = 1
  /\ PoolSize("google") = 2 /\ pools["google"].current_index = 0
  /\ \E r \in PoolRuns :
       run_key[r] = Some([provider |-> "ollama", key |-> None])
  /\ \E r \in PoolRuns :
       run_key[r] = Some([provider |-> "openai", key |-> Some(Key(1))])

\* Stop took the no-agent branch on Task t before its Run executed anything
StoppedBeforeStart(t) ==
  /\ pc[t] = "scheduled"
  /\ tasks[t].status = STOPPED /\ tasks[t].finished_at # None

\* C37: once Stop has moved a Task straight to stopped before its Run
\* executed its first step, no step moves the Task back to running and the Run
\* does not go on towards agent.run()
C37_StoppedBeforeStartStays ==
  [][\A t \in DOMAIN tasks :
       StoppedBeforeStart(t) =>
         /\ tasks'[t].status = STOPPED
         /\ pc'[t] \notin {"setup", "agent_run"}]_vars

\* the step in which the Run of Task t calls trigger_webhook
Invokes(t) == hook[t].state = "idle" /\ hook'[t].state # "idle"
\* the event of the call
Event(h) == h.payload[1].event
\* what the Task shows when the event is sent: the terminal status of the
\* event, finished_at, and the output or the error
Recorded(task, event) ==
  /\ task.finished_at # None
  /\ event = "task.completed" => (task.status = FINISHED /\ task.output # None)
  /\ event = "task.failed" => (task.status = FAILED /\ task.error # None)

\* C39: the Run calls trigger_webhook with the terminal status, finished_at and
\* the output (task.completed) or the error (task.failed) already in the store,
\* the result it sends being the stored output; while the delivery is in
\* progress cleanup_task has not begun, so the handle set-up registered is
\* still there
C39_WebhookAfterRecordBeforeCleanup ==
  [][\A t \in DOMAIN tasks :
       /\ Invokes(t) =>
            /\ Recorded(tasks'[t], Event(hook'[t]))
            /\ Event(hook'[t]) = "task.completed" =>
                 hook'[t].payload[1].result = tasks'[t].output
            /\ cleaned'[t] = {}
            /\ agents' = agents
       /\ hook[t].state = "sending" =>
            /\ pc[t] = "webhook" /\ cleaned[t] = {}
            /\ Recorded(tasks[t], Event(hook[t]))
            /\ cleaned'[t] # {} => hook'[t].state = "returned"]_vars
\* task.failed is being delivered: the Task is failed with its error and
\* finished_at, the handle is registered and cleanup has not begun
C39_Witness ==
  \E t \in DOMAIN tasks :
    /\ hook[t].state = "sending" /\ Event(hook[t]) = "task.failed"
    /\ Len(hook[t].responses) = 1
    /\ tasks[t].status = FAILED /\ tasks[t].error = Some("boom")
    /\ tasks[t].finished_at # None
    /\ t \in DOMAIN agents /\ cleaned[t] = {}

\* the responses of h go on from those of g
Continues(g, h) ==
  /\ Len(h.responses) >= Len(g.responses)
  /\ SubSeq(h.responses, 1, Len(g.responses)) = g.responses

\* C40: a Run calls trigger_webhook at most once: a call that was made is never
\* replaced by another (its URL and payload stay, its attempts only go on, and
\* once it has returned nothing of it changes), it is made for task.completed
\* only in a Run that returned and for task.failed only in a Run that raised,
\* and a Run never does both
C40_WebhookAtMostOnce ==
  [][\A t \in DOMAIN tasks :
       /\ hook[t].state # "idle" =>
            /\ hook'[t].state # "idle"
            /\ hook'[t].url = hook[t].url /\ hook'[t].payload = hook[t].payload
            /\ Continues(hook[t], hook'[t])
       /\ hook[t].state = "returned" => hook'[t] = hook[t]
       /\ hook'[t].payload # None =>
            /\ Event(hook'[t]) = "task.completed" => outcome'[t] = "returned"
            /\ Event(hook'[t]) = "task.failed" => outcome'[t] = "raised"
       /\ outcome[t] # "none" => outcome'[t] = outcome[t]]_vars
\* a Task subscribed to both events finished: task.completed was delivered at
\* the second attempt, and the Run ended with that one call
C40_Witness ==
  \E t \in DOMAIN tasks :
    /\ tasks[t].webhook_events = {"task.completed", "task.failed"}
    /\ pc[t] = "done" /\ outcome[t] = "returned"
    /\ hook[t].state = "returned" /\ hook[t].returned = Some(TRUE)
    /\ Event(hook[t]) = "task.completed"
    /\ hook[t].responses = <<FALSE, TRUE>>
====
